---- MODULE Spec2Model ----
(***************************************************************************)
(* Model of the CP216 ARM/Thumb simulator: the ARM and Thumb decoders      *)
(* (ARM_decoder.py, thumb_decoder.py, enhanced_decoder.py), the execution  *)
(* engine (enhanced_executor.py) and the cache hierarchy (cache.py).       *)
(*                                                                         *)
(* Python integers are unbounded; TLC integers are 32-bit signed.  A       *)
(* Python integer v is therefore carried as the pair <<hi, lo>> with       *)
(* v = hi * 2^16 + lo and 0 <= lo < 2^16 (hi is any integer, negative for  *)
(* negative v).  A value lies in [0, 2^32) exactly when 0 <= hi < 2^16.    *)
(***************************************************************************)
EXTENDS Integers, Sequences, FiniteSets, TLC

H16 == 2^16
Pairs == Int \X Int

\* ------------------------------------------------------------------------
\* Python integer arithmetic on <<hi, lo>> pairs
\* ------------------------------------------------------------------------

\* bitwise operations of Python on (unbounded, two's complement) integers
\* (x & (2^k - 1) is x mod 2^k and x & 2^k is bit k of x in place: the two
\* shapes every field extraction has are computed directly)
LowMasks == { 2^k - 1 : k \in 1 .. 30 }
SingleBits == { 2^k : k \in 0 .. 30 }

\* (recursive functions: an argument of a function is evaluated once)
BitAndBits[a \in Int, b \in Int] ==
    IF a = 0 \/ b = 0 THEN 0
    ELSE IF a = -1 THEN b
    ELSE IF b = -1 THEN a
    ELSE (a % 2) * (b % 2) + 2 * BitAndBits[a \div 2, b \div 2]

BitAnd[a \in Int, b \in Int] ==
    IF b \in LowMasks THEN a % (b + 1)
    ELSE IF b \in SingleBits THEN ((a \div b) % 2) * b
    ELSE BitAndBits[a, b]

BitOr[a \in Int, b \in Int] ==
    IF a = 0 THEN b
    ELSE IF b = 0 THEN a
    ELSE IF a = -1 \/ b = -1 THEN -1
    ELSE (IF a % 2 = 1 \/ b % 2 = 1 THEN 1 ELSE 0) + 2 * BitOr[a \div 2, b \div 2]

BitXor[a \in Int, b \in Int] ==
    IF a = 0 THEN b
    ELSE IF b = 0 THEN a
    ELSE IF a = -1 /\ b = -1 THEN 0
    ELSE (IF a % 2 = b % 2 THEN 0 ELSE 1) + 2 * BitXor[a \div 2, b \div 2]

\* a small Python integer n (|n| < 2^31) as a pair, and back
FromInt[n \in Int] == << n \div H16, n % H16 >>
ToInt[v \in Pairs] == v[1] * H16 + v[2]

PyAdd[a \in Pairs, b \in Pairs] == << a[1] + b[1] + ((a[2] + b[2]) \div H16), (a[2] + b[2]) % H16 >>
PySub[a \in Pairs, b \in Pairs] == << a[1] - b[1] + ((a[2] - b[2]) \div H16), (a[2] - b[2]) % H16 >>
PyAnd[a \in Pairs, b \in Pairs] == << BitAnd[a[1], b[1]], BitAnd[a[2], b[2]] >>
PyOr[a \in Pairs, b \in Pairs] == << BitOr[a[1], b[1]],  BitOr[a[2], b[2]] >>
PyXor[a \in Pairs, b \in Pairs] == << BitXor[a[1], b[1]], BitXor[a[2], b[2]] >>
PyNot[a \in Pairs] == << -a[1] - 1, (H16 - 1) - a[2] >>
PyIsZero[a \in Pairs] == a[1] = 0 /\ a[2] = 0
PyIsNeg[a \in Pairs] == a[1] < 0

\* v << k and v >> k for 0 <= k < 32
PyShl[v \in Pairs, k \in Nat] ==
    LET s  == IF k >= 16 THEN << ToInt[v], 0 >> ELSE v
        j  == IF k >= 16 THEN k - 16 ELSE k
    IN  << s[1] * 2^j + ((s[2] * 2^j) \div H16), (s[2] * 2^j) % H16 >>
PyShr[v \in Pairs, k \in Nat] ==
    LET s  == IF k >= 16 THEN << v[1] \div H16, v[1] % H16 >> ELSE v
        j  == IF k >= 16 THEN k - 16 ELSE k
    IN  << s[1] \div 2^j, ((s[1] % 2^j) * 2^(16 - j) + (s[2] \div 2^j)) % H16 >>

\* the constant 0xFFFFFFFF and x & 0xFFFFFFFF
Mask32 == << H16 - 1, H16 - 1 >>
And32[v \in Pairs] == PyAnd[v, Mask32]

\* (a * b) & 0xFFFFFFFF; the product itself does not fit a pair of limbs, and
\* its low 32 bits depend only on the low 32 bits of a and b
MulLow16[x \in Nat, y \in Nat] ==
    LET x1 == x \div 256  x0 == x % 256
        y1 == y \div 256  y0 == y % 256
        mid == x1 * y0 + x0 * y1
        low == (mid % 256) * 256 + x0 * y0
    IN  << x1 * y1 + (mid \div 256) + (low \div H16), low % H16 >>
PyMul32[a \in Pairs, b \in Pairs] ==
    LET ah == a[1] % H16
        bh == b[1] % H16
        ll == MulLow16[a[2], b[2]]
        cross == (MulLow16[ah, b[2]][2] + MulLow16[a[2], bh][2]) % H16
    IN  << (ll[1] + cross) % H16, ll[2] >>

\* v // d and v % d for a divisor 0 < d < 2^15 (exact for every v)
PyFloorDiv[v \in Pairs, d \in Nat] == << v[1] \div d, ((v[1] % d) * H16 + v[2]) \div d >>
PyMod[v \in Pairs, d \in Nat] == ((v[1] % d) * (H16 % d) + v[2]) % d
PyLt[a \in Pairs, b \in Pairs] == a[1] < b[1] \/ (a[1] = b[1] /\ a[2] < b[2])

InRange32(v) == 0 <= v[1] /\ v[1] < H16

\* the 32-bit word whose halves are hi and lo
W(hi, lo) == << hi, lo >>

\* (instruction >> sh) & mask, for a mask below 2^31
ShrAnd[w \in Pairs, sh \in Nat, mask \in Nat] == ToInt[PyAnd[PyShr[w, sh], FromInt[mask]]]

\* ------------------------------------------------------------------------
\* ARMDecoder.decode_instruction (ARM_decoder.py)
\* ------------------------------------------------------------------------
Decoded(t, o) == [type |-> t, ops |-> o]
NoOps == [none |-> 0]

ArmDataImm(opcode, rd, rn, imm) ==
    CASE opcode = \b1101 -> Decoded("MOV_IMM", [rd |-> rd, immediate |-> imm])
      [] opcode = \b0100 -> Decoded("ADD_IMM", [rd |-> rd, rn |-> rn, immediate |-> imm])
      [] opcode = \b0010 -> Decoded("SUB_IMM", [rd |-> rd, rn |-> rn, immediate |-> imm])
      [] opcode = \b1010 -> Decoded("CMP_IMM", [rn |-> rn, immediate |-> imm])
      [] opcode = \b0000 -> Decoded("AND_IMM", [rd |-> rd, rn |-> rn, immediate |-> imm])
      [] opcode = \b0001 -> Decoded("EOR_IMM", [rd |-> rd, rn |-> rn, immediate |-> imm])
      [] opcode = \b1100 -> Decoded("ORR_IMM", [rd |-> rd, rn |-> rn, immediate |-> imm])
      [] opcode = \b1110 -> Decoded("BIC_IMM", [rd |-> rd, rn |-> rn, immediate |-> imm])
      [] opcode = \b1111 -> Decoded("MVN_IMM", [rd |-> rd, immediate |-> imm])
      [] opcode = \b1000 -> Decoded("TST_IMM", [rn |-> rn, immediate |-> imm])
      [] opcode = \b1001 -> Decoded("TEQ_IMM", [rn |-> rn, immediate |-> imm])
      [] OTHER -> Decoded("UNKNOWN", NoOps)

ArmDataReg_WithAdc(opcode, rd, rn, rm) ==
    CASE opcode = \b1101 -> Decoded("MOV", [rd |-> rd, rm |-> rm])
      [] opcode = \b0100 -> Decoded("ADD", [rd |-> rd, rn |-> rn, rm |-> rm])
      [] opcode = \b0101 -> Decoded("ADC", [rd |-> rd, rn |-> rn, rm |-> rm])
      [] opcode = \b0010 -> Decoded("SUB", [rd |-> rd, rn |-> rn, rm |-> rm])
      [] opcode = \b1010 -> Decoded("CMP", [rn |-> rn, rm |-> rm])
      [] opcode = \b0000 -> Decoded("AND", [rd |-> rd, rn |-> rn, rm |-> rm])
      [] opcode = \b0001 -> Decoded("EOR", [rd |-> rd, rn |-> rn, rm |-> rm])
      [] opcode = \b1100 -> Decoded("ORR", [rd |-> rd, rn |-> rn, rm |-> rm])
      [] opcode = \b1110 -> Decoded("BIC", [rd |-> rd, rn |-> rn, rm |-> rm])
      [] opcode = \b1111 -> Decoded("MVN", [rd |-> rd, rm |-> rm])
      [] opcode = \b1000 -> Decoded("TST", [rn |-> rn, rm |-> rm])
      [] opcode = \b1001 -> Decoded("TEQ", [rn |-> rn, rm |-> rm])
      [] OTHER -> Decoded("UNKNOWN", NoOps)

ArmDataReg(opcode, rd, rn, rm) ==
    CASE opcode = \b1101 -> Decoded("MOV", [rd |-> rd, rm |-> rm])
      [] opcode = \b0100 -> Decoded("ADD", [rd |-> rd, rn |-> rn, rm |-> rm])
      [] opcode = \b0010 -> Decoded("SUB", [rd |-> rd, rn |-> rn, rm |-> rm])
      [] opcode = \b1010 -> Decoded("CMP", [rn |-> rn, rm |-> rm])
      [] opcode = \b0000 -> Decoded("AND", [rd |-> rd, rn |-> rn, rm |-> rm])
      [] opcode = \b0001 -> Decoded("EOR", [rd |-> rd, rn |-> rn, rm |-> rm])
      [] opcode = \b1100 -> Decoded("ORR", [rd |-> rd, rn |-> rn, rm |-> rm])
      [] opcode = \b1110 -> Decoded("BIC", [rd |-> rd, rn |-> rn, rm |-> rm])
      [] opcode = \b1111 -> Decoded("MVN", [rd |-> rd, rm |-> rm])
      [] opcode = \b1000 -> Decoded("TST", [rn |-> rn, rm |-> rm])
      [] opcode = \b1001 -> Decoded("TEQ", [rn |-> rn, rm |-> rm])
      [] OTHER -> Decoded("UNKNOWN", NoOps)

\* the branch class: 24-bit offset, sign-extended, not shifted
ArmBranchOffset(instruction) ==
    LET offset == ToInt[PyAnd[instruction, W(\h00FF, \hFFFF)]]
    IN  IF BitAnd[offset, \h800000] # 0 THEN offset - \h1000000 ELSE offset

ArmDecodeBranch(instruction) ==
    LET link == ShrAnd[instruction, 24, 1]
        offset == ArmBranchOffset(instruction)
    IN  IF link # 0 THEN Decoded("BL", [offset |-> offset])
        ELSE Decoded("B", [offset |-> offset])

ARM_decode_instruction_NoBx(instruction) ==
    LET opcode == ShrAnd[instruction, 21, \hF]
        i_flag == ShrAnd[instruction, 25, 1]
        instr_type == ShrAnd[instruction, 26, 3]
        rn == ShrAnd[instruction, 16, \hF]
        rd == ShrAnd[instruction, 12, \hF]
    IN  IF instr_type = 0 /\ PyAnd[instruction, W(\h0FC0, \h00F0)] = W(\h0000, \h0090)
        THEN Decoded("MUL", [rd |-> ShrAnd[instruction, 16, \hF],
                             rm |-> ShrAnd[instruction, 0, \hF],
                             rs |-> ShrAnd[instruction, 8, \hF]])
        ELSE IF instr_type = 0
        THEN IF i_flag # 0
             THEN ArmDataImm(opcode, rd, rn, ShrAnd[instruction, 0, \hFFF])
             ELSE ArmDataReg(opcode, rd, rn, ShrAnd[instruction, 0, \hF])
        ELSE IF instr_type = 1
        THEN IF ShrAnd[instruction, 20, 1] # 0
             THEN Decoded("LDR", [rd |-> rd, rn |-> rn, offset |-> ShrAnd[instruction, 0, \hFFF]])
             ELSE Decoded("STR", [rd |-> rd, rn |-> rn, offset |-> ShrAnd[instruction, 0, \hFFF]])
        ELSE IF instr_type = 2
        THEN ArmDecodeBranch(instruction)
        ELSE Decoded("UNKNOWN", NoOps)

ARM_decode_instruction(instruction) ==
    LET opcode == ShrAnd[instruction, 21, \hF]
        i_flag == ShrAnd[instruction, 25, 1]
        instr_type == ShrAnd[instruction, 26, 3]
        rn == ShrAnd[instruction, 16, \hF]
        rd == ShrAnd[instruction, 12, \hF]
    IN  IF instr_type = 0 /\ PyAnd[instruction, W(\h0FC0, \h00F0)] = W(\h0000, \h0090)
        THEN Decoded("MUL", [rd |-> ShrAnd[instruction, 16, \hF],
                             rm |-> ShrAnd[instruction, 0, \hF],
                             rs |-> ShrAnd[instruction, 8, \hF]])
        ELSE IF PyAnd[instruction, W(\h0FFF, \hFFF0)] = W(\h012F, \hFF10)
        THEN Decoded("BX", [rm |-> ShrAnd[instruction, 0, \hF]])
        ELSE IF instr_type = 0
        THEN IF i_flag # 0
             THEN ArmDataImm(opcode, rd, rn, ShrAnd[instruction, 0, \hFFF])
             ELSE ArmDataReg(opcode, rd, rn, ShrAnd[instruction, 0, \hF])
        ELSE IF instr_type = 1
        THEN IF ShrAnd[instruction, 20, 1] # 0
             THEN Decoded("LDR", [rd |-> rd, rn |-> rn, offset |-> ShrAnd[instruction, 0, \hFFF]])
             ELSE Decoded("STR", [rd |-> rd, rn |-> rn, offset |-> ShrAnd[instruction, 0, \hFFF]])
        ELSE IF instr_type = 2
        THEN ArmDecodeBranch(instruction)
        ELSE Decoded("UNKNOWN", NoOps)

\* ------------------------------------------------------------------------
\* FixedThumbDecoder.decode_thumb_instruction (thumb_decoder.py); the
\* instruction is a plain integer below 2^16
\* ------------------------------------------------------------------------
Shr16(i, k) == i \div 2^k

ThumbFormat3Types == << "T_MOV_IMM", "T_CMP_IMM", "T_ADD_IMM", "T_SUB_IMM" >>
ThumbShiftOps == << "T_LSL", "T_LSR", "T_ASR" >>
ThumbAluOps_Short == << "T_AND", "T_EOR", "T_LSL", "T_LSR", "T_ASR", "T_ADC", "T_SBC", "T_ROR",
                        "T_TST", "T_NEG", "T_CMP", "T_CMN", "T_ORR", "T_MUL", "T_BIC" >>
ThumbAluOps == << "T_AND", "T_EOR", "T_LSL", "T_LSR", "T_ASR", "T_ADC", "T_SBC", "T_ROR",
                  "T_TST", "T_NEG", "T_CMP", "T_CMN", "T_ORR", "T_MUL", "T_BIC", "T_MVN" >>
ThumbFormat5Types == << "T_ADD", "T_CMP", "T_MOV_HI", "T_BX" >>

\* a Python list indexed at i: an index outside it raises IndexError
ListAt(list, i) == IF i + 1 \in DOMAIN list THEN list[i + 1] ELSE "IndexError"

ThumbSignExtend_None(offset, signbit, span) == offset
ThumbSignExtend(offset, signbit, span) ==
    IF BitAnd[offset, signbit] # 0 THEN offset - span ELSE offset

decode_thumb_instruction(instruction) ==
    LET bits_15_13 == BitAnd[Shr16(instruction, 13), \b111]
        bits_15_11 == BitAnd[Shr16(instruction, 11), \b11111]
        bits_15_10 == BitAnd[Shr16(instruction, 10), \b111111]
        rd3 == BitAnd[instruction, 7]
        rs3 == BitAnd[Shr16(instruction, 3), 7]
        f6  == BitAnd[Shr16(instruction, 6), 7]
    IN  IF bits_15_13 = \b001
        THEN Decoded(ListAt(ThumbFormat3Types, BitAnd[Shr16(instruction, 11), 3]),
                     [rd |-> BitAnd[Shr16(instruction, 8), 7],
                      immediate |-> BitAnd[instruction, \hFF]])
        ELSE IF bits_15_11 = \b00011
        THEN IF BitAnd[Shr16(instruction, 10), 1] # 0
             THEN Decoded(IF BitAnd[Shr16(instruction, 9), 1] # 0 THEN "T_SUB_IMM" ELSE "T_ADD_IMM",
                          [rd |-> rd3, rs |-> rs3, immediate |-> f6])
             ELSE Decoded(IF BitAnd[Shr16(instruction, 9), 1] # 0 THEN "T_SUB" ELSE "T_ADD",
                          [rd |-> rd3, rs |-> rs3, rn |-> f6])
        ELSE IF bits_15_13 = \b000
        THEN Decoded(ListAt(ThumbShiftOps, BitAnd[Shr16(instruction, 11), 3]),
                     [rd |-> rd3, rs |-> rs3, offset |-> BitAnd[Shr16(instruction, 6), \h1F]])
        ELSE IF bits_15_10 = \b010000
        THEN Decoded(ListAt(ThumbAluOps, BitAnd[Shr16(instruction, 6), \hF]),
                     [rd |-> rd3, rs |-> rs3])
        ELSE IF bits_15_10 = \b010001
        THEN Decoded(ListAt(ThumbFormat5Types, BitAnd[Shr16(instruction, 8), 3]),
                     [rd |-> BitOr[BitAnd[Shr16(instruction, 7), 1] * 8, rd3],
                      rs |-> BitOr[BitAnd[Shr16(instruction, 6), 1] * 8, rs3]])
        ELSE IF bits_15_13 = \b010
        THEN LET bits_12_11 == BitAnd[Shr16(instruction, 11), \b11]
             IN  IF bits_12_11 = \b00
                 THEN Decoded("T_STR_REG", [rd |-> rd3, rb |-> rs3, rm |-> f6])
                 ELSE IF bits_12_11 = \b01
                 THEN Decoded("T_STRH_REG", [rd |-> rd3, rb |-> rs3, rm |-> f6])
                 ELSE IF bits_12_11 = \b10
                 THEN Decoded("T_STRB_REG", [rd |-> rd3, rb |-> rs3, rm |-> f6])
                 ELSE Decoded("T_LDR_PC", [rd |-> BitAnd[Shr16(instruction, 8), 7],
                                           offset |-> BitAnd[instruction, \hFF]])
        ELSE IF bits_15_13 = \b011
        THEN Decoded(IF BitAnd[Shr16(instruction, 11), 1] # 0 THEN "T_LDR" ELSE "T_STR",
                     [rd |-> rd3, rb |-> rs3, offset |-> BitAnd[Shr16(instruction, 6), \h1F]])
        ELSE IF Shr16(instruction, 12) = \b1101 /\ BitAnd[Shr16(instruction, 8), \hF] # \hF
        THEN Decoded("T_BCC", [condition |-> BitAnd[Shr16(instruction, 8), \hF],
                               offset |-> ThumbSignExtend(BitAnd[instruction, \hFF], \h80, \h100) * 2])
        ELSE IF Shr16(instruction, 11) = \b11100
        THEN Decoded("T_B", [offset |-> ThumbSignExtend(BitAnd[instruction, \h7FF], \h400, \h800) * 2])
        ELSE IF BitAnd[instruction, \hFF00] = \hDF00
        THEN Decoded("T_SWI", [immediate |-> BitAnd[instruction, \hFF]])
        ELSE Decoded("T_UNKNOWN", [raw |-> instruction])

\* ------------------------------------------------------------------------
\* BaseCache and CacheSimulator (cache.py)
\* ------------------------------------------------------------------------
CacheLine == [valid |-> FALSE, tag |-> "None", dirty |-> FALSE]

BaseCache(size, block_size, mapping) ==
    [size |-> size, block_size |-> block_size, mapping |-> mapping,
     num_blocks |-> size \div block_size,
     lines |-> [i \in 0 .. (size \div block_size) - 1 |-> CacheLine],
     accesses |-> 0, hits |-> 0, misses |-> 0, write_backs |-> 0]

get_index_AlwaysDirect(c, address) ==
    PyMod[PyFloorDiv[address, c.block_size], c.num_blocks]
get_index(c, address) ==
    IF c.mapping = "direct"
    THEN PyMod[PyFloorDiv[address, c.block_size], c.num_blocks]
    ELSE 0
get_tag(c, address) == PyFloorDiv[address, c.block_size]

\* BaseCache.access: the level after the access, and whether it hit
CacheHit(c, address) ==
    LET line == c.lines[get_index(c, address)]
    IN  line.valid /\ line.tag = get_tag(c, address)

BaseCache_access_ValidOnly(c, address, is_write) ==
    LET index == get_index(c, address)
        tag == get_tag(c, address)
        line == c.lines[index]
    IN  IF line.valid
        THEN [c EXCEPT !.accesses = @ + 1, !.hits = @ + 1,
                       !.lines[index].dirty = IF is_write THEN TRUE ELSE @]
        ELSE [c EXCEPT !.accesses = @ + 1, !.misses = @ + 1,
                       !.write_backs = IF line.valid /\ line.dirty THEN @ + 1 ELSE @,
                       !.lines[index] = [valid |-> TRUE, tag |-> tag, dirty |-> is_write]]

BaseCache_access_WriteBackWhenValid(c, address, is_write) ==
    LET index == get_index(c, address)
        tag == get_tag(c, address)
        line == c.lines[index]
    IN  IF line.valid /\ line.tag = tag
        THEN [c EXCEPT !.accesses = @ + 1, !.hits = @ + 1,
                       !.lines[index].dirty = IF is_write THEN TRUE ELSE @]
        ELSE [c EXCEPT !.accesses = @ + 1, !.misses = @ + 1,
                       !.write_backs = IF line.valid THEN @ + 1 ELSE @,
                       !.lines[index] = [valid |-> TRUE, tag |-> tag, dirty |-> is_write]]

BaseCache_access(c, address, is_write) ==
    LET index == get_index(c, address)
        tag == get_tag(c, address)
        line == c.lines[index]
    IN  IF line.valid /\ line.tag = tag
        THEN [c EXCEPT !.accesses = @ + 1, !.hits = @ + 1,
                       !.lines[index].dirty = IF is_write THEN TRUE ELSE @]
        ELSE [c EXCEPT !.accesses = @ + 1, !.misses = @ + 1,
                       !.write_backs = IF line.valid /\ line.dirty THEN @ + 1 ELSE @,
                       !.lines[index] = [valid |-> TRUE, tag |-> tag, dirty |-> is_write]]

reset_stats_KeepHits(c) == [c EXCEPT !.accesses = 0, !.misses = 0, !.write_backs = 0]
reset_stats(c) == [c EXCEPT !.accesses = 0, !.hits = 0, !.misses = 0, !.write_backs = 0]

StatKeys == {"L1I_miss", "L1I_hit", "L1D_miss", "L1D_hit", "L2_miss", "L2_hit"}
EmptyStats == [k \in StatKeys |-> 0]

CacheSimulator(l1i_conf, l1d_conf, l2_conf) ==
    [L1I |-> BaseCache(l1i_conf.size, l1i_conf.block_size, l1i_conf.mapping),
     L1D |-> BaseCache(l1d_conf.size, l1d_conf.block_size, l1d_conf.mapping),
     L2  |-> BaseCache(l2_conf.size, l2_conf.block_size, l2_conf.mapping),
     stats |-> EmptyStats, attached |-> TRUE]

\* self.cache = None: no simulator attached
NoCache == [attached |-> FALSE]

access_instruction(cs, address) ==
    IF ~CacheHit(cs.L1I, address)
    THEN IF ~CacheHit(cs.L2, address)
         THEN [cs EXCEPT !.L1I = BaseCache_access(@, address, FALSE),
                         !.L2 = BaseCache_access(@, address, FALSE),
                         !.stats["L2_miss"] = @ + 1, !.stats["L1I_miss"] = @ + 1]
         ELSE [cs EXCEPT !.L1I = BaseCache_access(@, address, FALSE),
                         !.L2 = BaseCache_access(@, address, FALSE),
                         !.stats["L2_hit"] = @ + 1, !.stats["L1I_miss"] = @ + 1]
    ELSE [cs EXCEPT !.L1I = BaseCache_access(@, address, FALSE),
                    !.stats["L1I_hit"] = @ + 1]

access_data_AlwaysL2(cs, address, is_write) ==
    IF ~CacheHit(cs.L2, address)
    THEN [cs EXCEPT !.L1D = BaseCache_access(@, address, is_write),
                    !.L2 = BaseCache_access(@, address, is_write),
                    !.stats["L2_miss"] = @ + 1, !.stats["L1D_miss"] = @ + 1]
    ELSE [cs EXCEPT !.L1D = BaseCache_access(@, address, is_write),
                    !.L2 = BaseCache_access(@, address, is_write),
                    !.stats["L2_hit"] = @ + 1, !.stats["L1D_miss"] = @ + 1]

access_data(cs, address, is_write) ==
    IF ~CacheHit(cs.L1D, address)
    THEN IF ~CacheHit(cs.L2, address)
         THEN [cs EXCEPT !.L1D = BaseCache_access(@, address, is_write),
                         !.L2 = BaseCache_access(@, address, is_write),
                         !.stats["L2_miss"] = @ + 1, !.stats["L1D_miss"] = @ + 1]
         ELSE [cs EXCEPT !.L1D = BaseCache_access(@, address, is_write),
                         !.L2 = BaseCache_access(@, address, is_write),
                         !.stats["L2_hit"] = @ + 1, !.stats["L1D_miss"] = @ + 1]
    ELSE [cs EXCEPT !.L1D = BaseCache_access(@, address, is_write),
                    !.stats["L1D_hit"] = @ + 1]

CacheSimulator_reset_StatsOnly(cs) == [cs EXCEPT !.stats = EmptyStats]
CacheSimulator_reset(cs) ==
    [cs EXCEPT !.stats = EmptyStats, !.L1I = reset_stats(@),
               !.L1D = reset_stats(@), !.L2 = reset_stats(@)]

\* CacheSimulator.summarize: the returned dictionary.  The cost is a multiple
\* of 0.5 and is carried as twice its value
summarize_WholeL1(cs) ==
    [L1_miss |-> cs.stats["L1I_miss"] + cs.stats["L1D_miss"],
     L2_miss |-> cs.stats["L2_miss"],
     write_backs |-> cs.L1I.write_backs + cs.L1D.write_backs + cs.L2.write_backs,
     cost_x2 |-> 2 * (cs.stats["L1I_miss"] + cs.stats["L1D_miss"])
                 + 2 * cs.stats["L2_miss"]
                 + 2 * (cs.L1I.write_backs + cs.L1D.write_backs + cs.L2.write_backs)]

summarize(cs) ==
    [L1_miss |-> cs.stats["L1I_miss"] + cs.stats["L1D_miss"],
     L2_miss |-> cs.stats["L2_miss"],
     write_backs |-> cs.L1I.write_backs + cs.L1D.write_backs + cs.L2.write_backs,
     cost_x2 |-> (cs.stats["L1I_miss"] + cs.stats["L1D_miss"])
                 + 2 * cs.stats["L2_miss"]
                 + 2 * (cs.L1I.write_backs + cs.L1D.write_backs + cs.L2.write_backs)]

\* ------------------------------------------------------------------------
\* EnhancedARMExecutor (enhanced_executor.py).  A machine state s is the
\* record [registers, cpsr, memory, mode, dmode, cache, raised]: dmode is
\* decoder.mode, cache is NoCache or a CacheSimulator, raised is "None" or
\* the exception that left the handler.
\* ------------------------------------------------------------------------
SP == 13
LR == 14
PC == 15
max_instructions == 1000
StackTop == W(\h0000, \h1000)
Zero == W(0, 0)

FlagPos(flag) ==
    CASE flag = "N" -> 31 [] flag = "Z" -> 30 [] flag = "C" -> 29 [] flag = "V" -> 28

set_cpsr_flag(cpsr, flag, value) ==
    IF value THEN PyOr[cpsr, PyShl[W(0, 1), FlagPos(flag)]]
    ELSE PyAnd[cpsr, PyNot[PyShl[W(0, 1), FlagPos(flag)]]]

get_cpsr_flag(cpsr, flag) == ~PyIsZero[PyAnd[cpsr, PyShl[W(0, 1), FlagPos(flag)]]]

update_flags_WithCarry(s, result) ==
    [s EXCEPT !.cpsr = set_cpsr_flag(set_cpsr_flag(set_cpsr_flag(@, "Z", PyIsZero[result]),
                                                   "N", PyIsNeg[result]),
                                     "C", ~PyIsNeg[result])]

update_flags(s, result) ==
    [s EXCEPT !.cpsr = set_cpsr_flag(set_cpsr_flag(@, "Z", PyIsZero[result]),
                                     "N", PyIsNeg[result])]

switch_mode_Coerce(s, new_mode) == [s EXCEPT !.mode = new_mode, !.dmode = new_mode]

switch_mode(s, new_mode) ==
    IF new_mode \in {"ARM", "Thumb"}
    THEN [s EXCEPT !.mode = new_mode, !.dmode = new_mode]
    ELSE [s EXCEPT !.raised = "ValueError"]

MemGet(memory, a) == IF a \in DOMAIN memory THEN memory[a] ELSE 0
MemPut(memory, a, b) == [y \in DOMAIN memory \cup {a} |-> IF y = a THEN b ELSE memory[y]]

RECURSIVE ReadBytes(_, _, _, _)
ReadBytes(memory, address, i, n) ==
    IF i = n THEN Zero
    ELSE PyOr[PyShl[FromInt[MemGet(memory, PyAdd[address, FromInt[i]])], i * 8],
              ReadBytes(memory, address, i + 1, n)]
read_memory_word(memory, address) == ReadBytes(memory, address, 0, 4)
read_memory_halfword_OneByte(memory, address) == ReadBytes(memory, address, 0, 1)
read_memory_halfword(memory, address) == ReadBytes(memory, address, 0, 2)
read_memory_byte(memory, address) == MemGet(memory, address)

RECURSIVE WriteBytes(_, _, _, _, _)
WriteBytes(memory, address, value, i, n) ==
    IF i = n THEN memory
    ELSE WriteBytes(MemPut(memory, PyAdd[address, FromInt[i]],
                           ToInt[PyAnd[PyShr[value, i * 8], W(0, \hFF)]]),
                    address, value, i + 1, n)
write_memory_word_TwoBytes(memory, address, value) == WriteBytes(memory, address, value, 0, 2)
write_memory_word(memory, address, value) == WriteBytes(memory, address, value, 0, 4)
write_memory_halfword(memory, address, value) == WriteBytes(memory, address, value, 0, 2)
write_memory_byte(memory, address, value) == MemPut(memory, address, ToInt[PyAnd[value, W(0, \hFF)]])

SetReg(s, r, v) == [s EXCEPT !.registers[r] = v]

\* ARM handlers
execute_arm_mov(s, o) == SetReg(s, o.rd, s.registers[o.rm])
execute_arm_mov_imm(s, o) == SetReg(s, o.rd, FromInt[o.immediate])
execute_arm_add(s, o) == SetReg(s, o.rd, And32[PyAdd[s.registers[o.rn], s.registers[o.rm]]])
execute_arm_add_imm(s, o) == SetReg(s, o.rd, And32[PyAdd[s.registers[o.rn], FromInt[o.immediate]]])
execute_arm_sub_Unmasked(s, o) == SetReg(s, o.rd, PySub[s.registers[o.rn], s.registers[o.rm]])
execute_arm_sub(s, o) == SetReg(s, o.rd, And32[PySub[s.registers[o.rn], s.registers[o.rm]]])
execute_arm_sub_imm(s, o) == SetReg(s, o.rd, And32[PySub[s.registers[o.rn], FromInt[o.immediate]]])
execute_arm_mul(s, o) == SetReg(s, o.rd, PyMul32[s.registers[o.rm], s.registers[o.rs]])
execute_arm_and(s, o) == SetReg(s, o.rd, And32[PyAnd[s.registers[o.rn], s.registers[o.rm]]])
execute_arm_orr(s, o) == SetReg(s, o.rd, And32[PyOr[s.registers[o.rn], s.registers[o.rm]]])
execute_arm_cmp(s, o) == update_flags(s, PySub[s.registers[o.rn], s.registers[o.rm]])
execute_arm_cmp_imm(s, o) == update_flags(s, PySub[s.registers[o.rn], FromInt[o.immediate]])

execute_arm_str(s, o) ==
    LET address == PyAdd[s.registers[o.rn], FromInt[o.offset]]
        value == s.registers[o.rd]
        c == IF s.cache.attached
             THEN access_data(access_instruction(s.cache, s.registers[PC]), address, TRUE)
             ELSE s.cache
    IN  [s EXCEPT !.cache = c, !.memory = write_memory_word(@, address, value)]

execute_arm_ldr(s, o) ==
    LET address == PyAdd[s.registers[o.rn], FromInt[o.offset]]
        c == IF s.cache.attached
             THEN access_data(access_instruction(s.cache, s.registers[PC]), address, FALSE)
             ELSE s.cache
    IN  [s EXCEPT !.cache = c, !.registers[o.rd] = read_memory_word(s.memory, address)]

ArmBranchTarget_NoShift(old_pc, offset0) ==
    LET offset == IF ~PyIsZero[PyAnd[offset0, W(\h0080, \h0000)]]
                  THEN PyOr[offset0, W(\hFF00, \h0000)] ELSE offset0
    IN  And32[PyAdd[PyAdd[old_pc, FromInt[8]], offset]]

\* B / BL: the decoded offset is sign-extended again, shifted left by 2
ArmBranchTarget(old_pc, offset0) ==
    LET offset == IF ~PyIsZero[PyAnd[offset0, W(\h0080, \h0000)]]
                  THEN PyOr[offset0, W(\hFF00, \h0000)] ELSE offset0
        branch_offset == PyShl[offset, 2]
    IN  And32[PyAdd[PyAdd[old_pc, FromInt[8]], branch_offset]]

execute_arm_branch(s, o) ==
    SetReg(s, PC, ArmBranchTarget(s.registers[PC], FromInt[o.offset]))

execute_arm_branch_link_LateLink(s, o) ==
    LET s1 == SetReg(s, PC, ArmBranchTarget(s.registers[PC], FromInt[o.offset]))
    IN  SetReg(s1, LR, PyAdd[s1.registers[PC], FromInt[4]])

execute_arm_branch_link(s, o) ==
    LET s1 == SetReg(s, LR, PyAdd[s.registers[PC], FromInt[4]])
    IN  SetReg(s1, PC, ArmBranchTarget(s1.registers[PC], FromInt[o.offset]))

execute_arm_bx_HalfwordMask(s, o) ==
    LET target == s.registers[o.rm]
    IN  IF ~PyIsZero[PyAnd[target, W(0, 1)]]
        THEN SetReg(switch_mode(s, "Thumb"), PC, PyAnd[target, W(\hFFFF, \hFFFE)])
        ELSE SetReg(switch_mode(s, "ARM"), PC, PyAnd[target, W(\hFFFF, \hFFFE)])

execute_arm_bx(s, o) ==
    LET target == s.registers[o.rm]
    IN  IF ~PyIsZero[PyAnd[target, W(0, 1)]]
        THEN SetReg(switch_mode(s, "Thumb"), PC, PyAnd[target, W(\hFFFF, \hFFFE)])
        ELSE SetReg(switch_mode(s, "ARM"), PC, PyAnd[target, W(\hFFFF, \hFFFC)])

execute_arm_eor(s, o) == SetReg(s, o.rd, And32[PyXor[s.registers[o.rn], s.registers[o.rm]]])
execute_arm_eor_imm(s, o) == SetReg(s, o.rd, And32[PyXor[s.registers[o.rn], FromInt[o.immediate]]])
execute_arm_bic(s, o) == SetReg(s, o.rd, And32[PyAnd[s.registers[o.rn], PyNot[s.registers[o.rm]]]])
execute_arm_mvn(s, o) == SetReg(s, o.rd, And32[PyNot[s.registers[o.rm]]])
execute_arm_tst(s, o) == update_flags(s, PyAnd[s.registers[o.rn], s.registers[o.rm]])
execute_arm_teq(s, o) == update_flags(s, PyXor[s.registers[o.rn], s.registers[o.rm]])
execute_arm_and_imm(s, o) == SetReg(s, o.rd, And32[PyAnd[s.registers[o.rn], FromInt[o.immediate]]])
execute_arm_orr_imm(s, o) == SetReg(s, o.rd, And32[PyOr[s.registers[o.rn], FromInt[o.immediate]]])
execute_arm_bic_imm(s, o) == SetReg(s, o.rd, And32[PyAnd[s.registers[o.rn], PyNot[FromInt[o.immediate]]]])
execute_arm_mvn_imm(s, o) == SetReg(s, o.rd, And32[PyNot[FromInt[o.immediate]]])
execute_arm_tst_imm(s, o) == update_flags(s, PyAnd[s.registers[o.rn], FromInt[o.immediate]])
execute_arm_teq_imm(s, o) == update_flags(s, PyXor[s.registers[o.rn], FromInt[o.immediate]])

\* dispatch of execute_arm_instruction on the decoded type
ArmDispatch(s, t, o) ==
    CASE t = "MOV" -> execute_arm_mov(s, o)
      [] t = "MOV_IMM" -> execute_arm_mov_imm(s, o)
      [] t = "ADD" -> execute_arm_add(s, o)
      [] t = "ADD_IMM" -> execute_arm_add_imm(s, o)
      [] t = "SUB" -> execute_arm_sub(s, o)
      [] t = "SUB_IMM" -> execute_arm_sub_imm(s, o)
      [] t = "LDR" -> execute_arm_ldr(s, o)
      [] t = "STR" -> execute_arm_str(s, o)
      [] t = "CMP" -> execute_arm_cmp(s, o)
      [] t = "CMP_IMM" -> execute_arm_cmp_imm(s, o)
      [] t = "B" -> execute_arm_branch(s, o)
      [] t = "BL" -> execute_arm_branch_link(s, o)
      [] t = "MUL" -> execute_arm_mul(s, o)
      [] t = "AND" -> execute_arm_and(s, o)
      [] t = "ORR" -> execute_arm_orr(s, o)
      [] t = "BX" -> execute_arm_bx(s, o)
      [] t = "EOR" -> execute_arm_eor(s, o)
      [] t = "EOR_IMM" -> execute_arm_eor_imm(s, o)
      [] t = "AND_IMM" -> execute_arm_and_imm(s, o)
      [] t = "ORR_IMM" -> execute_arm_orr_imm(s, o)
      [] t = "BIC" -> execute_arm_bic(s, o)
      [] t = "BIC_IMM" -> execute_arm_bic_imm(s, o)
      [] t = "MVN" -> execute_arm_mvn(s, o)
      [] t = "MVN_IMM" -> execute_arm_mvn_imm(s, o)
      [] t = "TST" -> execute_arm_tst(s, o)
      [] t = "TST_IMM" -> execute_arm_tst_imm(s, o)
      [] t = "TEQ" -> execute_arm_teq(s, o)
      [] t = "TEQ_IMM" -> execute_arm_teq_imm(s, o)
      [] OTHER -> s

\* EnhancedARMDecoder.decode_instruction as the module leaves it: the second
\* definition (mode = "ARM" by default, "THUMB" for Thumb) replaces the first;
\* for any other mode it returns a bare string, not a (mnemonic, operands) pair
Enhanced_decode_instruction(instruction, mode) ==
    IF mode = "ARM" THEN ARM_decode_instruction(instruction)
    ELSE IF mode = "THUMB" THEN decode_thumb_instruction(ToInt[instruction])
    ELSE [string |-> "UNKNOWN MODE"]

execute_arm_instruction_EqChecked(s, instruction) ==
    LET d == Enhanced_decode_instruction(instruction, "ARM")
    IN  IF instruction[1] \div 4096 = 0 /\ ~get_cpsr_flag(s.cpsr, "Z") THEN s
        ELSE ArmDispatch(s, d.type, d.ops)
execute_arm_instruction(s, instruction) ==
    LET d == Enhanced_decode_instruction(instruction, "ARM")
    IN  ArmDispatch(s, d.type, d.ops)

\* Thumb handlers
execute_thumb_mov_imm(s, o) == SetReg(s, o.rd, FromInt[o.immediate])
execute_thumb_add_imm(s, o) == SetReg(s, o.rd, And32[PyAdd[s.registers[o.rd], FromInt[o.immediate]]])
execute_thumb_cmp(s, o) == update_flags(s, PySub[s.registers[o.rd], s.registers[o.rs]])
execute_thumb_sub_imm(s, o) == SetReg(s, o.rd, And32[PySub[s.registers[o.rd], FromInt[o.immediate]]])
execute_thumb_cmp_imm(s, o) == update_flags(s, PySub[s.registers[o.rd], FromInt[o.immediate]])
execute_thumb_add(s, o) == SetReg(s, o.rd, And32[PyAdd[s.registers[o.rd], s.registers[o.rs]]])
execute_thumb_sub(s, o) == SetReg(s, o.rd, And32[PySub[s.registers[o.rd], s.registers[o.rs]]])
execute_thumb_mov_hi(s, o) == SetReg(s, o.rd, s.registers[o.rs])

\* with a cache attached the load calls access_data(address) without its
\* required is_write argument: Python raises TypeError before anything runs
execute_thumb_ldr(s, o) ==
    LET address == PyAdd[s.registers[o.rb], PyShl[FromInt[o.offset], 2]]
    IN  IF s.cache.attached
        THEN [s EXCEPT !.raised = "TypeError"]
        ELSE SetReg(s, o.rd, read_memory_word(s.memory, address))

\* the store probes the cache (when attached) and writes no memory
execute_thumb_str(s, o) ==
    LET address == PyAdd[s.registers[o.rb], PyShl[FromInt[o.offset], 2]]
    IN  IF s.cache.attached
        THEN [s EXCEPT !.cache = access_data(@, address, TRUE)]
        ELSE s

ThumbBranchTarget(old_pc, offset) ==
    And32[PyAdd[PyAdd[old_pc, FromInt[4]], PyShl[FromInt[offset], 1]]]

execute_thumb_branch(s, o) == SetReg(s, PC, ThumbBranchTarget(s.registers[PC], o.offset))

check_condition_SignOnly(cpsr, condition) ==
    LET N == get_cpsr_flag(cpsr, "N")
        Z == get_cpsr_flag(cpsr, "Z")
        C == get_cpsr_flag(cpsr, "C")
        V == get_cpsr_flag(cpsr, "V")
    IN  CASE condition = \h0 -> Z
          [] condition = \h1 -> ~Z
          [] condition = \h2 -> C
          [] condition = \h3 -> ~C
          [] condition = \h4 -> N
          [] condition = \h5 -> ~N
          [] condition = \h6 -> V
          [] condition = \h7 -> ~V
          [] condition = \h8 -> C /\ ~Z
          [] condition = \h9 -> ~C \/ Z
          [] condition = \hA -> ~N
          [] condition = \hB -> N
          [] condition = \hC -> ~Z /\ ~N
          [] condition = \hD -> Z \/ N
          [] condition = \hE -> TRUE
          [] condition = \hF -> FALSE
          [] OTHER -> FALSE

check_condition(cpsr, condition) ==
    LET N == get_cpsr_flag(cpsr, "N")
        Z == get_cpsr_flag(cpsr, "Z")
        C == get_cpsr_flag(cpsr, "C")
        V == get_cpsr_flag(cpsr, "V")
    IN  CASE condition = \h0 -> Z
          [] condition = \h1 -> ~Z
          [] condition = \h2 -> C
          [] condition = \h3 -> ~C
          [] condition = \h4 -> N
          [] condition = \h5 -> ~N
          [] condition = \h6 -> V
          [] condition = \h7 -> ~V
          [] condition = \h8 -> C /\ ~Z
          [] condition = \h9 -> ~C \/ Z
          [] condition = \hA -> N = V
          [] condition = \hB -> N # V
          [] condition = \hC -> ~Z /\ (N = V)
          [] condition = \hD -> Z \/ (N # V)
          [] condition = \hE -> TRUE
          [] condition = \hF -> FALSE
          [] OTHER -> FALSE

execute_thumb_branch_conditional(s, o) ==
    IF check_condition(s.cpsr, o.condition)
    THEN SetReg(s, PC, ThumbBranchTarget(s.registers[PC], o.offset))
    ELSE s

execute_thumb_bx(s, o) ==
    LET target == s.registers[o.rs]
    IN  IF ~PyIsZero[PyAnd[target, W(0, 1)]]
        THEN SetReg(switch_mode(s, "Thumb"), PC, PyAnd[target, W(\hFFFF, \hFFFE)])
        ELSE SetReg(switch_mode(s, "ARM"), PC, PyAnd[target, W(\hFFFF, \hFFFC)])

execute_thumb_and(s, o) == SetReg(s, o.rd, And32[PyAnd[s.registers[o.rd], s.registers[o.rs]]])
execute_thumb_eor(s, o) == SetReg(s, o.rd, And32[PyXor[s.registers[o.rd], s.registers[o.rs]]])
execute_thumb_orr(s, o) == SetReg(s, o.rd, And32[PyOr[s.registers[o.rd], s.registers[o.rs]]])
execute_thumb_mul(s, o) == SetReg(s, o.rd, PyMul32[s.registers[o.rd], s.registers[o.rs]])

ThumbDispatch(s, t, o) ==
    CASE t = "T_MOV_IMM" -> execute_thumb_mov_imm(s, o)
      [] t = "T_ADD_IMM" -> execute_thumb_add_imm(s, o)
      [] t = "T_SUB_IMM" -> execute_thumb_sub_imm(s, o)
      [] t = "T_CMP_IMM" -> execute_thumb_cmp_imm(s, o)
      [] t = "T_ADD" -> execute_thumb_add(s, o)
      [] t = "T_SUB" -> execute_thumb_sub(s, o)
      [] t = "T_MOV_HI" -> execute_thumb_mov_hi(s, o)
      [] t = "T_LDR" -> execute_thumb_ldr(s, o)
      [] t = "T_STR" -> execute_thumb_str(s, o)
      [] t = "T_B" -> execute_thumb_branch(s, o)
      [] t = "T_BCC" -> execute_thumb_branch_conditional(s, o)
      [] t = "T_BX" -> execute_thumb_bx(s, o)
      [] t = "T_CMP" -> execute_thumb_cmp(s, o)
      [] t = "T_AND" -> execute_thumb_and(s, o)
      [] t = "T_EOR" -> execute_thumb_eor(s, o)
      [] t = "T_ORR" -> execute_thumb_orr(s, o)
      [] t = "T_MUL" -> execute_thumb_mul(s, o)
      [] OTHER -> s

execute_thumb_instruction(s, instruction) ==
    LET d == decode_thumb_instruction(instruction)
    IN  ThumbDispatch(s, d.type, d.ops)

\* ------------------------------------------------------------------------
\* State of a run
\* ------------------------------------------------------------------------
VARIABLES
    registers,          \* self.registers: 0..15 -> Python integer
    cpsr,               \* self.cpsr
    memory,             \* self.memory: address -> byte, absent addresses read 0
    mode,               \* self.mode
    dmode,              \* self.decoder.mode
    cache,              \* self.cache: NoCache or a CacheSimulator
    program,            \* self.program: sequence of <<value, mode tag>>
    arm_count,          \* self.arm_count
    thumb_base,         \* self.thumb_base
    running,            \* self.running
    instruction_count,  \* self.instruction_count
    phase,              \* where the caller of the executor stands
    limit_reported,     \* the "Maximum instruction limit reached" line was printed
    calls,              \* number of calls made on a CacheSimulator used on its own
    last                \* what the latest executed step fetched, and the state it started from

vars == << registers, cpsr, memory, mode, dmode, cache, program, arm_count, thumb_base, running,
           instruction_count, phase, limit_reported, calls, last >>

Machine == [registers |-> registers, cpsr |-> cpsr, memory |-> memory, mode |-> mode,
            dmode |-> dmode, cache |-> cache, raised |-> "None"]

\* load_program_from_file: the ARM entries are counted wherever they stand
RECURSIVE CountArm(_)
CountArm(prog) ==
    IF prog = << >> THEN 0
    ELSE (IF Head(prog)[2] = "ARM" THEN 1 ELSE 0) + CountArm(Tail(prog))

NoStep == [type |-> "None"]

\* EnhancedARMExecutor.__init__, then load_program_from_file
InitMachine(prog, c) ==
    /\ registers = [r \in 0 .. 15 |-> IF r = SP THEN StackTop ELSE Zero]
    /\ cpsr = Zero
    /\ memory = << >>
    /\ mode = "ARM"
    /\ dmode = "ARM"
    /\ cache = c
    /\ program = prog
    /\ arm_count = CountArm(prog)
    /\ thumb_base = CountArm(prog) * 4
    /\ running = TRUE
    /\ instruction_count = 0
    /\ limit_reported = FALSE
    /\ calls = 0
    /\ last = NoStep

\* ------------------------------------------------------------------------
\* execute_program: one action per loop iteration and per way out
\* ------------------------------------------------------------------------
pc_val == registers[PC]

instr_index ==
    IF mode = "ARM" THEN PyFloorDiv[pc_val, 4]
    ELSE PyAdd[FromInt[arm_count], PyFloorDiv[PySub[pc_val, FromInt[thumb_base]], 2]]

OutOfBounds == PyLt[instr_index, Zero] \/ ~PyLt[instr_index, FromInt[Len(program)]]

LoopCondition_OneMore == running /\ instruction_count <= max_instructions
LoopCondition == running /\ instruction_count < max_instructions

\* the automatic step: PC moves on only when it still holds the fetch value
AdvancePC(s, fetch_pc, width) ==
    IF s.registers[PC] = fetch_pc
    THEN SetReg(s, PC, PyAdd[s.registers[PC], FromInt[width]])
    ELSE s

TagSwitch_Stay(s0, instr_mode) == s0

\* lines 195 and 200: the program value cut to the width of the mode
Masked(tagmode, value) ==
    IF tagmode = "ARM" THEN And32[value] ELSE PyAnd[value, W(0, \hFFFF)]

\* the decoder call of execute_arm_instruction / execute_thumb_instruction
DecodedAs(tagmode, value) ==
    IF tagmode = "ARM" THEN Enhanced_decode_instruction(Masked(tagmode, value), "ARM")
    ELSE decode_thumb_instruction(ToInt[Masked(tagmode, value)])

\* lines 189-191: follow the mode tag of the fetched entry
TagSwitch(s0, instr_mode) ==
    IF s0.mode # instr_mode THEN switch_mode(s0, instr_mode) ELSE s0

Dispatch_TstActs(s1, d) ==
    IF d.type = "T_TST"
    THEN update_flags(s1, PyAnd[s1.registers[d.ops.rd], s1.registers[d.ops.rs]])
    ELSE IF s1.mode = "ARM" THEN ArmDispatch(s1, d.type, d.ops)
    ELSE ThumbDispatch(s1, d.type, d.ops)

\* the handler the decoded type selects, in the mode s1 executes in
Dispatch(s1, d) ==
    IF s1.mode = "ARM" THEN ArmDispatch(s1, d.type, d.ops)
    ELSE ThumbDispatch(s1, d.type, d.ops)

\* lines 197-198 and 202-203; an exception leaves the loop before them
AfterHandler(s2, fetch_pc, tagmode) ==
    IF s2.raised # "None" THEN s2
    ELSE AdvancePC(s2, fetch_pc, IF tagmode = "ARM" THEN 4 ELSE 2)

Install(s) ==
    /\ registers' = s.registers
    /\ cpsr' = s.cpsr
    /\ memory' = s.memory
    /\ mode' = s.mode
    /\ dmode' = s.dmode
    /\ cache' = s.cache

ExecStep ==
    /\ phase = "run"
    /\ LoopCondition
    /\ ~OutOfBounds
    /\ \E entry \in { program[ToInt[instr_index] + 1] } :
       \E s1 \in { TagSwitch(Machine, entry[2]) } :
       \E d \in { DecodedAs(s1.mode, entry[1]) } :
       \E s2 \in { Dispatch(s1, d) } :
       \E s3 \in { AfterHandler(s2, pc_val, s1.mode) } :
           /\ Install(s3)
           /\ last' = [type |-> d.type, ops |-> d.ops, index |-> ToInt[instr_index],
                       value |-> Masked(s1.mode, entry[1]),
                       pc_val |-> pc_val, mode |-> s1.mode, before |-> Machine,
                       handler_pc |-> s2.registers[PC], count |-> instruction_count]
           /\ IF s3.raised # "None"
              THEN /\ phase' = "raised"
                   /\ instruction_count' = instruction_count
              ELSE /\ phase' = "run"
                   /\ instruction_count' = instruction_count + 1
    /\ UNCHANGED << program, arm_count, thumb_base, running, limit_reported, calls >>

\* line 207 onwards: the report after the loop
Report ==
    /\ phase' = "done"
    /\ limit_reported' = (instruction_count >= max_instructions)
    /\ UNCHANGED << registers, cpsr, memory, mode, dmode, cache, program, arm_count,
                    thumb_base, running,
                    instruction_count, calls, last >>

\* the break of line 185
StopBounds ==
    /\ phase = "run"
    /\ LoopCondition
    /\ OutOfBounds
    /\ Report

\* the while condition of line 171 fails
StopLimit ==
    /\ phase = "run"
    /\ ~LoopCondition
    /\ Report

\* ------------------------------------------------------------------------
\* The runs checked
\* ------------------------------------------------------------------------
ARM(hi, lo) == << W(hi, lo), "ARM" >>
THUMB(half) == << W(0, half), "Thumb" >>

\* the entries the generated programs are built from
Alphabet ==
    { ARM(\hE3A0, \h1001),      \* MOV R1, #1
      ARM(\hE040, \h2001),      \* SUB R2, R0, R1
      ARM(\hEAFF, \hFFFE),      \* B   with offset field -2 (its own address)
      ARM(\hEB00, \h0000),      \* BL  with offset field 0
      ARM(\hEF00, \h0011),      \* SWI 0x11
      THUMB(\h3801),            \* SUB R0, #1
      THUMB(\hDF11),            \* SWI 0x11
      THUMB(\h6802) }           \* LDR R2, [R0, #0]

MaxProgLen == 3

RECURSIVE SeqsUpTo(_, _)
SeqsUpTo(S, n) ==
    IF n = 0 THEN { << >> }
    ELSE LET shorter == SeqsUpTo(S, n - 1)
         IN  shorter \cup { Append(q, e) : q \in shorter, e \in S }

\* programs with loops, mode changes and writes of PC
SelfBranch == << ARM(\hEAFF, \hFFFE) >>
LoopForever == << ARM(\hE3A0, \h1001), ARM(\hEAFF, \hFFFD) >>      \* MOV R1,#1 ; B to 0
\* MOV R0,#n ; then in Thumb: SUB R0,#1 ; CMP R0,#0 ; BNE to the SUB
CountDown(n) == << ARM(\hE3A0, n), THUMB(\h3801), THUMB(\h2800), THUMB(\hD1FE) >>
MovPcOdd == << ARM(\hE3A0, \hF002) >>                             \* MOV PC, #2
\* MOV R1,#9 ; BX R1 ; Thumb at 8: SUB R0,#1 ; MOV PC, R1
BxToThumb == << ARM(\hE3A0, \h1009), ARM(\hE12F, \hFF11), THUMB(\h3801), THUMB(\h468F) >>
\* MOV R1,#12 ; BX R1 ; SWI 0x11 ; SUB R2,R0,R1
BxToArm == << ARM(\hE3A0, \h100C), ARM(\hE12F, \hFF11), ARM(\hEF00, \h0011),
              ARM(\hE040, \h2001) >>
\* MOV R1,#4 ; Thumb at 4: BX R1 ; SUB R0,#1
ThumbBx == << ARM(\hE3A0, \h1004), THUMB(\h4708), THUMB(\h3801) >>
\* MOV R1,#1 ; Thumb at 4: SUB R0,#1 ; B back into the ARM entry's bytes
ThumbBack == << ARM(\hE3A0, \h1001), THUMB(\h3801), THUMB(\hE7FE) >>
\* MOV R1,#1 ; CMP R0,R1 ; TST R1,R1 ; TEQ R1,#1 ; ADD R2,R0,R1
Compares == << ARM(\hE3A0, \h1001), ARM(\hE150, \h0001), ARM(\hE111, \h0001),
               ARM(\hE331, \h0001), ARM(\hE080, \h2001) >>
\* MOV R1,#1 ; ADC R1,R0,R2 ; Thumb: LSL R1,R1,#1 ; TST R0,R1 ; 0x4800 (STRH_REG) ;
\* 0x5000 (STRB_REG) ; 0x5800 (LDR_PC) ; MVN R0,R1 ; 0xFFFF
Unimplemented == << ARM(\hE3A0, \h1001), ARM(\hE0A0, \h1002), THUMB(\h0049), THUMB(\h4208),
                    THUMB(\h4800), THUMB(\h5000), THUMB(\h5800), THUMB(\h43C8),
                    THUMB(\hFFFF) >>
\* MOV R1,#1 ; values wider than their mode: Thumb SUB R0,#1 with bit 16 set
WideValues == << ARM(\hE3A0, \h1001), << << 1, \h3801 >>, "Thumb" >> >>
\* SWI 5 ; STR R1,[R0,#0] ; LDR R3,[R0,#0] ; MOV PC, LR
ArmMemory == << ARM(\hEF00, \h0005), ARM(\hE580, \h1000), ARM(\hE590, \h3000),
                ARM(\hE1A0, \hF00E) >>

SpecialPrograms ==
    { SelfBranch, LoopForever, CountDown(333), CountDown(332), CountDown(2), MovPcOdd,
      BxToThumb, BxToArm, ThumbBx, ThumbBack, ArmMemory, Compares,
      Unimplemented, WideValues }

Programs == (SeqsUpTo(Alphabet, MaxProgLen) \ { << >> }) \cup SpecialPrograms

CacheConf == [size |-> 16, block_size |-> 8, mapping |-> "direct"]
Caches == { NoCache, CacheSimulator(CacheConf, CacheConf, CacheConf) }

Init ==
    /\ phase = "run"
    /\ \E prog \in Programs, c \in Caches : InitMachine(prog, c)

Next == ExecStep \/ StopBounds \/ StopLimit

Spec == Init /\ [][Next]_vars

\* every run ends: the loop of execute_program is never suspended
FairSpec == Spec /\ WF_vars(Next)

\* ------------------------------------------------------------------------
\* Single handler calls: execute_arm_instruction / execute_thumb_instruction
\* called once on an executor whose registers were set beforehand
\* ------------------------------------------------------------------------
UnitValues ==
    { W(0, 0), W(0, 1), W(0, \h1001), W(0, \h2000), W(0, \h2002), W(0, \h1003),
      W(\h7FFF, \hFFFF), W(\h8000, \h0000), W(\hFFFF, \hFFFF) }
UnitPCs ==
    { W(0, 0), W(0, 4), W(0, \h0100), W(\h0200, \h0000), W(\hFFFF, \hFFF8),
      W(\hFFFF, \hFFFC) }
UnitMemory == { << >>, [a \in { W(0, \h2000) } |-> 7] }
UnitFlags == { Zero, W(\hC000, 0) }
\* the sixteen values of N, Z, C, V
AllFlags == { W(k * 4096, 0) : k \in 0 .. 15 }

UnitArmWords ==
    { W(\hEA00, \h0000), W(\hEAFF, \hFFFE), W(\hEA7F, \hFFFF), W(\hEA80, \h0000),
      W(\hEA00, \h0001), W(\h0AFF, \hFFFF),                                   \* B
      W(\hEB00, \h0000), W(\hEBFF, \hFFFE), W(\hEB7F, \hFFFF), W(\hEB80, \h0000),  \* BL
      W(\hE12F, \hFF11), W(\hE12F, \hFF1F),                                   \* BX R1, BX PC
      W(\hE041, \h2003),                                                    \* SUB R2, R1, R3
      W(\hE151, \h0003), W(\hE153, \h0001),     \* CMP R1, R3 ; CMP R3, R1
      W(\hE111, \h0003), W(\hE131, \h0003),     \* TST R1, R3 ; TEQ R1, R3
      W(\hE351, \h0001), W(\hE311, \h0001),     \* CMP R1, #1 ; TST R1, #1
      W(\hE331, \h0001),                        \* TEQ R1, #1
      W(\hE583, \h1004), W(\hE581, \h1000),     \* STR R1, [R3, #4] ; STR R1, [R1]
      W(\hE593, \h2004), W(\hE591, \h2000) }    \* LDR R2, [R3, #4] ; LDR R2, [R1]
UnitThumbWords ==
    { \h4708,      \* BX R1
      \h4778,      \* BX PC
      \h1AC8,      \* SUB R0, R1, R3
      \h2901,      \* CMP R1, #1
      \h4299,      \* CMP R1, R3
      \h428B,      \* CMP R3, R1
      \hD0FE,      \* BEQ with offset field -2
      \hDBFE,      \* BLT with offset field -2
      \h6059,      \* STR R1, [R3, #4]
      \h6008,      \* STR R0, [R1, #0]
      \h685A,      \* LDR R2, [R3, #4]
      \h680A,      \* LDR R2, [R1, #0]
      \hE002,      \* B with offset field 2
      \hE7FE,      \* B with offset field -2
      \h18C8,      \* ADD R0, R1, R3
      \h1C48,      \* ADD R0, R1, #1
      \h1E48 }     \* SUB R0, R1, #1
      \cup { \hD002 + 256 * c : c \in 0 .. 14 }     \* B<c> with offset field 2

InitUnit ==
    /\ phase = "unit"
    /\ \E v \in UnitValues, pc \in UnitPCs, m \in { "ARM", "Thumb" }, c \in Caches,
          mem \in UnitMemory :
       \* all sixteen flag values on the executor without cache and memory
       \E f \in IF ~c.attached /\ DOMAIN mem = {} THEN AllFlags ELSE UnitFlags :
          /\ registers = [r \in 0 .. 15 |->
                            CASE r = 1 -> v
                              [] r = 3 -> W(0, 1)
                              [] r = SP -> StackTop
                              [] r = PC -> pc
                              [] OTHER -> Zero]
          /\ cpsr = f
          /\ memory = mem
          /\ mode = m
          /\ dmode = m
          /\ cache = c
    /\ program = << >>
    /\ arm_count = 0
    /\ thumb_base = 0
    /\ running = TRUE
    /\ instruction_count = 0
    /\ limit_reported = FALSE
    /\ calls = 0
    /\ last = NoStep

UnitCall(tagmode, value) ==
    /\ phase = "unit"
    /\ \E d \in { DecodedAs(tagmode, value) } :
       \E s2 \in { IF tagmode = "ARM"
                   THEN execute_arm_instruction(Machine, Masked(tagmode, value))
                   ELSE execute_thumb_instruction(Machine, ToInt[Masked(tagmode, value)]) } :
           /\ Install(s2)
           /\ last' = [type |-> d.type, ops |-> d.ops, index |-> 0,
                       value |-> Masked(tagmode, value),
                       pc_val |-> pc_val, mode |-> tagmode, before |-> Machine,
                       handler_pc |-> s2.registers[PC]]
           /\ phase' = IF s2.raised # "None" THEN "raised" ELSE "called"
    /\ UNCHANGED << program, arm_count, thumb_base, running, instruction_count,
                    limit_reported, calls >>

UnitArm == \E w \in UnitArmWords : UnitCall("ARM", w)
UnitThumb == \E h \in UnitThumbWords : UnitCall("Thumb", W(0, h))

\* after an ARM STR, the LDR of the same base register and offset into R2
UnitLoadBack ==
    /\ phase = "called"
    /\ last.type = "STR"
    /\ \E w \in { x \in UnitArmWords :
                    /\ ARM_decode_instruction(x).type = "LDR"
                    /\ ARM_decode_instruction(x).ops.rn = last.ops.rn
                    /\ ARM_decode_instruction(x).ops.offset = last.ops.offset } :
       \E d \in { DecodedAs("ARM", w) } :
       \E s2 \in { execute_arm_instruction(Machine, Masked("ARM", w)) } :
           /\ Install(s2)
           /\ last' = [type |-> d.type, ops |-> d.ops, index |-> 0,
                       value |-> Masked("ARM", w),
                       pc_val |-> pc_val, mode |-> "ARM", before |-> Machine,
                       handler_pc |-> s2.registers[PC],
                       stored |-> last.before.registers[last.ops.rd]]
           /\ phase' = IF s2.raised # "None" THEN "raised" ELSE "loaded"
    /\ UNCHANGED << program, arm_count, thumb_base, running, instruction_count,
                    limit_reported, calls >>

\* switch_mode called with a valid or an invalid mode value
ModeRequests == { "ARM", "Thumb", "THUMB", "arm", "Jazelle" }
UnitSwitchMode ==
    /\ phase = "unit"
    /\ \E new_mode \in ModeRequests :
       \E s2 \in { switch_mode(Machine, new_mode) } :
           /\ Install(s2)
           /\ last' = [type |-> "switch_mode", new_mode |-> new_mode, before |-> Machine]
           /\ phase' = IF s2.raised # "None" THEN "raised" ELSE "called"
    /\ UNCHANGED << program, arm_count, thumb_base, running, instruction_count,
                    limit_reported, calls >>

NextUnit == UnitArm \/ UnitThumb \/ UnitLoadBack \/ UnitSwitchMode

SpecUnit == InitUnit /\ [][NextUnit]_vars

\* ------------------------------------------------------------------------
\* A CacheSimulator used on its own: any sequence of access_instruction,
\* access_data, reset and summarize calls
\* ------------------------------------------------------------------------
MaxCalls == 4
CacheAddresses == { W(0, 0), W(0, 16), W(0, 32) }
CacheMappings == { "direct", "fully" }
L1Conf(mapping) == [size |-> 16, block_size |-> 8, mapping |-> mapping]
L2Conf(mapping) == [size |-> 32, block_size |-> 16, mapping |-> mapping]

InitCache ==
    /\ phase = "cache"
    /\ \E mapping \in CacheMappings :
          cache = CacheSimulator(L1Conf(mapping), L1Conf(mapping), L2Conf(mapping))
    /\ registers = [r \in 0 .. 15 |-> IF r = SP THEN StackTop ELSE Zero]
    /\ cpsr = Zero
    /\ memory = << >>
    /\ mode = "ARM"
    /\ dmode = "ARM"
    /\ program = << >>
    /\ arm_count = 0
    /\ thumb_base = 0
    /\ running = TRUE
    /\ instruction_count = 0
    /\ limit_reported = FALSE
    /\ calls = 0
    /\ last = NoStep

CacheUntouched ==
    UNCHANGED << registers, cpsr, memory, mode, dmode, program, arm_count, thumb_base,
                 running, instruction_count, phase, limit_reported >>

CallAccessInstruction ==
    /\ phase = "cache" /\ calls < MaxCalls
    /\ \E address \in CacheAddresses :
          /\ cache' = access_instruction(cache, address)
          /\ last' = [type |-> "access_instruction", level |-> "L1I", address |-> address,
                      is_write |-> FALSE, before |-> cache]
    /\ calls' = calls + 1
    /\ CacheUntouched

CallAccessData ==
    /\ phase = "cache" /\ calls < MaxCalls
    /\ \E address \in CacheAddresses, is_write \in BOOLEAN :
          /\ cache' = access_data(cache, address, is_write)
          /\ last' = [type |-> "access_data", level |-> "L1D", address |-> address,
                      is_write |-> is_write, before |-> cache]
    /\ calls' = calls + 1
    /\ CacheUntouched

CallReset ==
    /\ phase = "cache" /\ calls < MaxCalls
    /\ cache' = CacheSimulator_reset(cache)
    /\ last' = [type |-> "reset", before |-> cache]
    /\ calls' = calls + 1
    /\ CacheUntouched

CallSummarize ==
    /\ phase = "cache"
    /\ cache' = cache
    /\ last' = [type |-> "summarize", result |-> summarize(cache), before |-> cache]
    /\ calls' = calls
    /\ CacheUntouched

NextCache == CallAccessInstruction \/ CallAccessData \/ CallReset \/ CallSummarize

SpecCache == InitCache /\ [][NextCache]_vars

\* ------------------------------------------------------------------------
\* The memory of an executor used on its own: any sequence of word, halfword
\* and byte writes, and reads of the three sizes
\* ------------------------------------------------------------------------
MaxWrites == 2
MemAddresses == { W(0, 0), W(0, 2), W(0, \hFFFF), W(\hFFFF, \hFFFE) }
\* 0x12345678, -1 and 2^32 + 0x1FF
MemValues == { W(\h1234, \h5678), << -1, H16 - 1 >>, << H16, \h01FF >> }

InitMemory ==
    /\ phase = "memory"
    /\ memory = << >>
    /\ registers = [r \in 0 .. 15 |-> IF r = SP THEN StackTop ELSE Zero]
    /\ cpsr = Zero
    /\ mode = "ARM"
    /\ dmode = "ARM"
    /\ cache = NoCache
    /\ program = << >>
    /\ arm_count = 0
    /\ thumb_base = 0
    /\ running = TRUE
    /\ instruction_count = 0
    /\ limit_reported = FALSE
    /\ calls = 0
    /\ last = NoStep

MemoryUntouched ==
    UNCHANGED << registers, cpsr, mode, dmode, cache, program, arm_count, thumb_base,
                 running, instruction_count, phase, limit_reported >>

CallWrite(name, mem, address, value) ==
    /\ phase = "memory"
    /\ calls < MaxWrites
    /\ memory' = mem
    /\ last' = [type |-> name, address |-> address, value |-> value, before |-> memory]
    /\ calls' = calls + 1
    /\ MemoryUntouched

CallWriteWord ==
    \E address \in MemAddresses, value \in MemValues :
        CallWrite("write_memory_word", write_memory_word(memory, address, value),
                  address, value)
CallWriteHalfword ==
    \E address \in MemAddresses, value \in MemValues :
        CallWrite("write_memory_halfword", write_memory_halfword(memory, address, value),
                  address, value)
CallWriteByte ==
    \E address \in MemAddresses, value \in MemValues :
        CallWrite("write_memory_byte", write_memory_byte(memory, address, value),
                  address, value)

\* the three reads at one address; they return and change nothing
CallRead ==
    /\ phase = "memory"
    /\ \E address \in MemAddresses :
          last' = [type |-> "read", address |-> address,
                   word |-> read_memory_word(memory, address),
                   halfword |-> read_memory_halfword(memory, address),
                   byte |-> read_memory_byte(memory, address),
                   before |-> memory]
    /\ UNCHANGED << memory, calls >>
    /\ MemoryUntouched

NextMemory == CallWriteWord \/ CallWriteHalfword \/ CallWriteByte \/ CallRead
SpecMemory == InitMemory /\ [][NextMemory]_vars

\* ------------------------------------------------------------------------
\* The decoders called on their own, once: ARMDecoder.decode_instruction on
\* a sample of words covering every value of bits 27..20, or
\* FixedThumbDecoder.decode_thumb_instruction on any halfword
\* ------------------------------------------------------------------------
DecodeConditions == { 0, 14, 15 }
DecodeLowHalves ==
    { \h0000, \h0010, \h0090, \h00F0, \h0395, \h0F90, \h1001, \hF002, \hFF10, \hFF1E,
      \hFFFF }
DecodeArmWords ==
    { W(cond * 4096 + b27_20 * 16 + b19_16, lo) :
        cond \in DecodeConditions, b27_20 \in 0 .. 255, b19_16 \in { 0, 15 },
        lo \in DecodeLowHalves }
Halfwords == 0 .. (H16 - 1)

InitDecode ==
    /\ phase = "decode"
    /\ program = << >>
    /\ registers = [r \in 0 .. 15 |-> Zero]
    /\ cpsr = Zero
    /\ memory = << >>
    /\ mode = "ARM"
    /\ dmode = "ARM"
    /\ cache = NoCache
    /\ arm_count = 0
    /\ thumb_base = 0
    /\ running = TRUE
    /\ instruction_count = 0
    /\ limit_reported = FALSE
    /\ calls = 0
    /\ last = NoStep

DecodeUntouched ==
    UNCHANGED << registers, cpsr, memory, mode, dmode, cache, program, arm_count,
                 thumb_base, running, instruction_count, phase, limit_reported >>

CallArmDecode ==
    /\ phase = "decode"
    /\ calls = 0
    /\ \E word \in DecodeArmWords :
          last' = [type |-> "decode_arm", word |-> word,
                   result |-> ARM_decode_instruction(word), before |-> Machine]
    /\ calls' = 1
    /\ DecodeUntouched

CallThumbDecode ==
    /\ phase = "decode"
    /\ calls = 0
    /\ \E half \in Halfwords :
          last' = [type |-> "decode_thumb", half |-> half,
                   result |-> decode_thumb_instruction(half), before |-> Machine]
    /\ calls' = 1
    /\ DecodeUntouched

\* EnhancedARMDecoder.set_mode with a mode it accepts, before any decoding
CallSetMode ==
    /\ phase = "decode"
    /\ calls = 0
    /\ \E new_mode \in { "ARM", "Thumb" } : dmode' = new_mode
    /\ UNCHANGED << registers, cpsr, memory, mode, cache, program, arm_count, thumb_base,
                    running, instruction_count, phase, limit_reported, calls, last >>

UnifiedArmWords == { W(\hE3A0, \h1001), W(\hEAFF, \hFFFE), W(\hE12F, \hFF11) }
UnifiedHalfwords == { W(0, \h3801), W(0, \hD002), W(0, \h4708), W(0, \h6802) }
ModeArguments == { "ARM", "Thumb", "omitted" }

\* EnhancedARMDecoder.decode_instruction(instruction, address[, mode]): a mode
\* left out takes the default of the parameter, "ARM"
CallDecodeInstruction ==
    /\ phase = "decode"
    /\ calls = 0
    /\ \E passed \in ModeArguments :
       \E word \in IF passed = "Thumb" \/ (passed = "omitted" /\ dmode = "Thumb")
                   THEN UnifiedHalfwords ELSE UnifiedArmWords \cup UnifiedHalfwords :
          last' = [type |-> "decode_instruction", word |-> word, passed |-> passed,
                   result |-> Enhanced_decode_instruction(word,
                                  IF passed = "omitted" THEN "ARM" ELSE passed),
                   before |-> Machine]
    /\ calls' = 1
    /\ DecodeUntouched

NextDecode == CallArmDecode \/ CallThumbDecode \/ CallSetMode \/ CallDecodeInstruction
SpecDecode == InitDecode /\ [][NextDecode]_vars

\* ------------------------------------------------------------------------
\* Two executors in the same state: execute_arm_instruction called on one with
\* a word and on the other with the word that differs in bits 31..28 only
\* ------------------------------------------------------------------------
\* the word w with bits 31..28 replaced by c
WithCondition(w, c) == << c * 4096 + (w[1] % 4096), w[2] >>
PairFlags == { Zero, W(\h4000, 0), W(\h8000, 0), W(\hC000, 0) }
PairPCs == { W(0, \h0100), W(\hFFFF, \hFFFC) }

InitPair ==
    /\ phase = "pair"
    /\ \E v \in UnitValues, pc \in PairPCs, f \in PairFlags, c \in Caches :
          /\ registers = [r \in 0 .. 15 |->
                            CASE r = 1 -> v
                              [] r = 3 -> W(0, 1)
                              [] r = SP -> StackTop
                              [] r = PC -> pc
                              [] OTHER -> Zero]
          /\ cpsr = f
          /\ cache = c
    /\ memory = [a \in { W(0, \h2000) } |-> 7]
    /\ mode = "ARM"
    /\ dmode = "ARM"
    /\ program = << >>
    /\ arm_count = 0
    /\ thumb_base = 0
    /\ running = TRUE
    /\ instruction_count = 0
    /\ limit_reported = FALSE
    /\ calls = 0
    /\ last = NoStep

CallPair ==
    /\ phase = "pair"
    /\ \E w \in UnitArmWords, c \in 0 .. 15 :
       \E s2 \in { execute_arm_instruction(Machine, w) } :
           /\ Install(s2)
           /\ last' = [type |-> "pair", word |-> w, other |-> WithCondition(w, c),
                       result |-> DecodedAs("ARM", w),
                       other_result |-> DecodedAs("ARM", WithCondition(w, c)),
                       other_state |-> execute_arm_instruction(Machine, WithCondition(w, c)),
                       pc_val |-> pc_val, before |-> Machine]
    /\ phase' = "paired"
    /\ UNCHANGED << program, arm_count, thumb_base, running, instruction_count,
                    limit_reported, calls >>

NextPair == CallPair

SpecPair == InitPair /\ [][NextPair]_vars

\* ------------------------------------------------------------------------
\* Properties
\* ------------------------------------------------------------------------
Stepped == phase \in { "run", "done" } /\ last.type # "None"
Called == phase = "called"
Width(m) == IF m = "ARM" THEN 4 ELSE 2
Mod32(v) == << v[1] % H16, v[2] >>
SignExt24(f) == IF f >= 2^23 THEN f - 2^24 ELSE f
Field24(v) == (v[1] % 256) * H16 + v[2]

\* C1: the program that is one ARM branch to its own address runs until
\* instruction_count equals max_instructions and ends with the limit report
C1_SelfBranchRunsToCeiling ==
    (program = SelfBranch /\ phase = "done")
        => (instruction_count = max_instructions /\ limit_reported)

\* the handlers that assign registers[rd]
WritesRd ==
    { "MOV", "MOV_IMM", "ADD", "ADD_IMM", "SUB", "SUB_IMM", "MUL", "AND", "AND_IMM",
      "ORR", "ORR_IMM", "EOR", "EOR_IMM", "BIC", "BIC_IMM", "MVN", "MVN_IMM", "LDR",
      "T_MOV_IMM", "T_ADD_IMM", "T_SUB_IMM", "T_ADD", "T_SUB", "T_MOV_HI", "T_LDR",
      "T_AND", "T_EOR", "T_ORR", "T_MUL" }
HandlerWrotePC(l) ==
    \/ l.type \in { "B", "BL", "BX", "T_B", "T_BX" }
    \/ l.type = "T_BCC" /\ check_condition(l.before.cpsr, l.ops.condition)
    \/ l.type \in WritesRd /\ l.ops.rd = PC

\* C2: after every step PC is the fetch PC plus the width of the mode when the
\* handler did not write R15, and exactly the value the handler wrote when it did
C2_PcAfterStep ==
    Stepped =>
        IF HandlerWrotePC(last)
        THEN registers[PC] = last.handler_pc
        ELSE registers[PC] = PyAdd[last.pc_val, FromInt[Width(last.mode)]]

\* C3: every run of execute_program ends, and instruction_count never
\* exceeds max_instructions
C3_TerminatesWithinCeiling ==
    [](instruction_count <= max_instructions) /\ <>(phase # "run")
C3_Witness == phase = "done" /\ instruction_count = max_instructions /\ ~OutOfBounds

\* C4: the limit report is printed exactly when the run ended with PC still
\* indexing an entry of the program; a run whose PC left the program is not
\* reported as limit reached
C4_LimitIffInsideProgram ==
    phase = "done" => (limit_reported <=> ~OutOfBounds)

\* a supervisor call with the halt immediate 0x11, ARM or Thumb encoding
IsSwi(l) ==
    IF l.mode = "ARM" THEN (l.value[1] \div 256) % 16 = \hF
    ELSE l.value[2] \div 256 = \hDF
SwiImmediate(l) == IF l.mode = "ARM" THEN Field24(l.value) ELSE l.value[2] % 256

\* C5: an executed supervisor call with immediate 0x11 leaves PC past the end of
\* the program, so that nothing more is executed; any other supervisor call
\* changes no register, flag or memory and the run goes on at the next entry
C5_SwiHaltStops ==
    (Stepped /\ IsSwi(last))
        => IF SwiImmediate(last) = \h11
           THEN OutOfBounds
           ELSE /\ registers = [last.before.registers EXCEPT
                                  ![PC] = PyAdd[last.pc_val, FromInt[Width(last.mode)]]]
                /\ cpsr = last.before.cpsr
                /\ memory = last.before.memory

\* C6: at every instruction boundary PC is a multiple of the width of the
\* current mode
C6_PcAligned ==
    phase \in { "run", "done" } => PyMod[registers[PC], Width(mode)] = 0

\* C7: every register holds a value in [0, 2^32) after any sequence of
\* executed instructions
C7_RegistersIn32 == \A r \in 0 .. 15 : InRange32(registers[r])
C7_Witness ==
    /\ Stepped
    /\ last.type = "SUB"
    /\ last.before.registers[last.ops.rn] = W(0, 0)
    /\ last.before.registers[last.ops.rm] = W(0, 1)
    /\ registers[last.ops.rd] = W(\hFFFF, \hFFFF)

BranchTargetOf(l) == Mod32(PyAdd[l.pc_val, FromInt[8 + 4 * SignExt24(Field24(l.value))]])

\* C8: the B handler leaves R15 = (fetch PC + 8 + 4 * signext24(offset field))
\* mod 2^32, the decoder having delivered signext24(offset field) unshifted
C8_BranchTarget ==
    (Called /\ last.type = "B")
        => /\ last.ops.offset = SignExt24(Field24(last.value))
           /\ registers[PC] = BranchTargetOf(last)
C8_Witness ==
    /\ Called
    /\ last.type = "B"
    /\ last.pc_val = W(0, 0)
    /\ Field24(last.value) = 0
    /\ registers[PC] = W(0, 8)

\* C9: the BL handler leaves LR = fetch PC + 4 and R15 = the branch target, and
\* changes no other register, no flag and no memory byte
C9_BranchLink ==
    (Called /\ last.type = "BL")
        => /\ registers[LR] = PyAdd[last.pc_val, FromInt[4]]
           /\ registers[PC] = BranchTargetOf(last)
           /\ \A r \in 0 .. 13 : registers[r] = last.before.registers[r]
           /\ cpsr = last.before.cpsr
           /\ memory = last.before.memory
C9_Witness ==
    /\ Called
    /\ last.type = "BL"
    /\ last.pc_val = W(0, 0)
    /\ Field24(last.value) = 0
    /\ registers[LR] = W(0, 4)
    /\ registers[PC] = W(0, 8)

BxTarget(l) == l.before.registers[IF l.type = "BX" THEN l.ops.rm ELSE l.ops.rs]

\* C10: BX / T_BX with target t: bit 0 set gives Thumb mode and R15 = t & ~1,
\* bit 0 clear gives ARM mode and R15 = t & ~3
C10_BranchExchange ==
    (Called /\ last.type \in { "BX", "T_BX" })
        => LET t == BxTarget(last)
           IN  IF t[2] % 2 = 1
               THEN mode = "Thumb" /\ registers[PC] = << t[1], t[2] - 1 >>
               ELSE mode = "ARM" /\ registers[PC] = << t[1], t[2] - (t[2] % 4) >>
C10_Witness ==
    /\ Called
    /\ last.type = "BX"
    /\ last.before.mode = "ARM"
    /\ BxTarget(last) = W(0, \h1001)
    /\ mode = "Thumb"
    /\ registers[PC] = W(0, \h1000)

\* ---- flags and conditions ----
CompareTypes ==
    { "CMP", "CMP_IMM", "TST", "TST_IMM", "TEQ", "TEQ_IMM", "T_CMP", "T_CMP_IMM" }
NFlag(c) == (c[1] \div 32768) % 2 = 1
ZFlag(c) == (c[1] \div 16384) % 2 = 1
CFlag(c) == (c[1] \div 8192) % 2 = 1
VFlag(c) == (c[1] \div 4096) % 2 = 1
\* the operands of the compare/test of record l, as Python integers
CompareLeft(l) ==
    IF l.type \in { "T_CMP", "T_CMP_IMM" } THEN l.before.registers[l.ops.rd]
    ELSE l.before.registers[l.ops.rn]
CompareRight(l) ==
    CASE l.type \in { "CMP", "TST", "TEQ" } -> l.before.registers[l.ops.rm]
      [] l.type = "T_CMP" -> l.before.registers[l.ops.rs]
      [] OTHER -> FromInt[l.ops.immediate]
\* the 32-bit result of the compare/test
CompareResult32(l) ==
    CASE l.type \in { "CMP", "CMP_IMM", "T_CMP", "T_CMP_IMM" } ->
            Mod32(PySub[CompareLeft(l), CompareRight(l)])
      [] l.type \in { "TST", "TST_IMM" } -> Mod32(PyAnd[CompareLeft(l), CompareRight(l)])
      [] OTHER -> Mod32(PyXor[CompareLeft(l), CompareRight(l)])

\* C18: a compare/test instruction on operands below 2^32 writes no register
\* and sets Z = (result = 0) and N = bit 31 of the result modulo 2^32
C18_CompareFlags ==
    (Called /\ last.type \in CompareTypes
        /\ \A r \in 0 .. 15 : InRange32(last.before.registers[r]))
        => /\ registers = last.before.registers
           /\ ZFlag(cpsr) = (CompareResult32(last) = Zero)
           /\ NFlag(cpsr) = (CompareResult32(last)[1] >= 32768)

\* C19: bits 29..0 of the status word stay 0 in every state of a run, and
\* only a compare/test instruction changes the status word
C19_OnlyNZ ==
    (phase \in { "run", "done", "raised" }) =>
        /\ cpsr[2] = 0
        /\ cpsr[1] \in { 0, 16384, 32768, 49152 }
        /\ ~CFlag(cpsr) /\ ~VFlag(cpsr)
        /\ (Stepped /\ cpsr # last.before.cpsr) => last.type \in CompareTypes
C19_Witness ==
    /\ Stepped
    /\ last.type = "CMP"
    /\ last.before.cpsr = Zero
    /\ cpsr = W(\h8000, 0)

\* the condition table: EQ NE CS CC MI PL VS VC HI LS GE LT GT LE AL NV
ConditionHolds(c, n, z, cf, v) ==
    CASE c = 0 -> z
      [] c = 1 -> ~z
      [] c = 2 -> cf
      [] c = 3 -> ~cf
      [] c = 4 -> n
      [] c = 5 -> ~n
      [] c = 6 -> v
      [] c = 7 -> ~v
      [] c = 8 -> cf /\ ~z
      [] c = 9 -> ~cf \/ z
      [] c = 10 -> (n <=> v)
      [] c = 11 -> ~(n <=> v)
      [] c = 12 -> ~z /\ (n <=> v)
      [] c = 13 -> z \/ ~(n <=> v)
      [] c = 14 -> TRUE
      [] c = 15 -> FALSE
ConditionOf(c, flags) ==
    ConditionHolds(c, NFlag(flags), ZFlag(flags), CFlag(flags), VFlag(flags))
SignExt8(f) == IF f >= 128 THEN f - 256 ELSE f

\* C20: check_condition follows the condition table on the current flags
\* for each of the 16 codes, and a Thumb conditional branch leaves every
\* register alone when its condition is false and writes the target when true
C20_ConditionTable ==
    /\ phase \in { "unit", "called" } =>
          \A c \in 0 .. 15 : check_condition(cpsr, c) = ConditionOf(c, cpsr)
    /\ (Called /\ last.type = "T_BCC") =>
          /\ cpsr = last.before.cpsr
          /\ \A r \in 0 .. 14 : registers[r] = last.before.registers[r]
          /\ IF ConditionOf((ToInt[last.value] \div 256) % 16, last.before.cpsr)
             THEN registers[PC] =
                      Mod32(PyAdd[last.pc_val,
                                  FromInt[4 + 4 * SignExt8(ToInt[last.value] % 256)]])
             ELSE registers[PC] = last.pc_val
C20_Witness ==
    /\ Called
    /\ last.type = "T_BCC"
    /\ last.ops.condition = 11
    /\ NFlag(cpsr) /\ ~VFlag(cpsr) /\ CFlag(cpsr)
    /\ last.pc_val = W(0, \h0100)
    /\ registers[PC] = W(0, \h00FC)

\* ---- loads and stores ----
\* address a plus a small k, on the halves of a
AddrPlus(a, k) == << a[1] + ((a[2] + k) \div H16), (a[2] + k) % H16 >>
\* byte i of the value v modulo 2^32, least significant first
ByteOf(v, i) ==
    CASE i = 0 -> v[2] % 256
      [] i = 1 -> v[2] \div 256
      [] i = 2 -> v[1] % 256
      [] i = 3 -> (v[1] \div 256) % 256
\* the little-endian word made of the four bytes of mem from a on
WordAt(mem, a) ==
    << MemGet(mem, AddrPlus(a, 3)) * 256 + MemGet(mem, AddrPlus(a, 2)),
       MemGet(mem, AddrPlus(a, 1)) * 256 + MemGet(mem, AddrPlus(a, 0)) >>
\* mem2 is mem1 with the n low bytes of v stored from a on, nothing else
StoredAt(mem1, mem2, a, v, n) ==
    /\ DOMAIN mem2 = DOMAIN mem1 \cup { AddrPlus(a, i) : i \in 0 .. n - 1 }
    /\ \A i \in 0 .. n - 1 : mem2[AddrPlus(a, i)] = ByteOf(v, i)
    /\ \A x \in DOMAIN mem1 :
          x \notin { AddrPlus(a, i) : i \in 0 .. n - 1 } => mem2[x] = mem1[x]
OthersSame(regs1, regs2, rd) == \A r \in 0 .. 15 : r # rd => regs2[r] = regs1[r]
\* R[rn] + the 12-bit offset field of the ARM word of record l
ArmAddress(l) == PyAdd[l.before.registers[(l.value[1]) % 16], << 0, l.value[2] % 4096 >>]
ArmRd(l) == l.value[2] \div 4096
\* R[rb] + 4 * the 5-bit offset field of the Thumb halfword of record l
ThumbAddress(l) ==
    PyAdd[l.before.registers[(l.value[2] \div 8) % 8],
          << 0, 4 * ((l.value[2] \div 64) % 32) >>]
ThumbRd(l) == l.value[2] % 8

\* C21: ARM STR stores R[rd] as four little-endian bytes at R[rn] + offset12
\* and changes no register; LDR loads the little-endian word at that address
\* into R[rd]; an LDR after the STR of the same address yields the stored value
C21_ArmLoadStore ==
    /\ (Called /\ last.type = "STR") =>
          /\ registers = last.before.registers
          /\ StoredAt(last.before.memory, memory, ArmAddress(last),
                      Mod32(last.before.registers[ArmRd(last)]), 4)
    /\ (phase \in { "called", "loaded" } /\ last.type = "LDR") =>
          /\ registers[ArmRd(last)] = WordAt(last.before.memory, ArmAddress(last))
          /\ OthersSame(last.before.registers, registers, ArmRd(last))
          /\ memory = last.before.memory
    /\ phase = "loaded" => registers[ArmRd(last)] = Mod32(last.stored)
C21_Witness ==
    /\ phase = "loaded"
    /\ cache.attached
    /\ last.stored = W(\h7FFF, \hFFFF)
    /\ ArmAddress(last) = W(0, 5)
    /\ registers[2] = W(\h7FFF, \hFFFF)

\* C22: Thumb T_STR stores R[rd] at R[rb] + 4 * offset5 and T_LDR loads the
\* little-endian word at that address into R[rd], with a cache attached or not
C22_ThumbLoadStore ==
    /\ (phase \in { "called", "raised" } /\ last.type = "T_STR") =>
          /\ phase = "called"
          /\ StoredAt(last.before.memory, memory, ThumbAddress(last),
                      Mod32(last.before.registers[ThumbRd(last)]), 4)
    /\ (phase \in { "called", "raised" } /\ last.type = "T_LDR") =>
          /\ phase = "called"
          /\ registers[ThumbRd(last)] = WordAt(last.before.memory, ThumbAddress(last))

WriteSize(name) ==
    CASE name = "write_memory_word" -> 4
      [] name = "write_memory_halfword" -> 2
      [] name = "write_memory_byte" -> 1
\* the little-endian value of the n bytes of mem from a on
ValueAt(mem, a, n) ==
    CASE n = 4 -> WordAt(mem, a)
      [] n = 2 -> << 0, MemGet(mem, AddrPlus(a, 1)) * 256 + MemGet(mem, a) >>
      [] n = 1 -> << 0, MemGet(mem, a) >>
\* v modulo 2^(8n)
ModBytes(v, n) ==
    CASE n = 4 -> Mod32(v)
      [] n = 2 -> << 0, v[2] >>
      [] n = 1 -> << 0, v[2] % 256 >>

\* C23: a write of n = 4, 2 or 1 bytes stores the low n bytes of the value
\* in little-endian order at a .. a+n-1 and changes no other address, the
\* read of the same size at a then returns the value modulo 2^(8n); every
\* read returns the bytes present, 0 for an address never written
C23_MemoryRoundTrip ==
    phase = "memory" =>
        /\ last.type \in { "write_memory_word", "write_memory_halfword", "write_memory_byte" } =>
              /\ StoredAt(last.before, memory, last.address, Mod32(last.value),
                          WriteSize(last.type))
              /\ read_memory_word(memory, last.address) = WordAt(memory, last.address)
              /\ WriteSize(last.type) = 4 =>
                    read_memory_word(memory, last.address) = ModBytes(last.value, 4)
              /\ WriteSize(last.type) = 2 =>
                    read_memory_halfword(memory, last.address) = ModBytes(last.value, 2)
              /\ WriteSize(last.type) = 1 =>
                    FromInt[read_memory_byte(memory, last.address)] = ModBytes(last.value, 1)
        /\ last.type = "read" =>
              /\ memory = last.before
              /\ last.word = ValueAt(memory, last.address, 4)
              /\ last.halfword = ValueAt(memory, last.address, 2)
              /\ FromInt[last.byte] = ValueAt(memory, last.address, 1)
              /\ last.address \notin DOMAIN memory => last.byte = 0
              /\ (\A i \in 0 .. 3 : AddrPlus(last.address, i) \notin DOMAIN memory)
                    => last.word = Zero
C23_Witness ==
    /\ phase = "memory"
    /\ last.type = "read"
    /\ last.address = W(0, 0)
    /\ calls = 2
    /\ last.word = W(\hFFFF, \h5678)
    /\ last.halfword = W(0, \h5678)

\* ---- the engine and its modes ----
\* the mnemonics execute_arm_instruction / execute_thumb_instruction dispatch
ArmHandled ==
    { "MOV", "MOV_IMM", "ADD", "ADD_IMM", "SUB", "SUB_IMM", "LDR", "STR", "CMP", "CMP_IMM",
      "B", "BL", "MUL", "AND", "ORR", "BX", "EOR", "EOR_IMM", "AND_IMM", "ORR_IMM",
      "BIC", "BIC_IMM", "MVN", "MVN_IMM", "TST", "TST_IMM", "TEQ", "TEQ_IMM" }
ThumbHandled ==
    { "T_MOV_IMM", "T_ADD_IMM", "T_SUB_IMM", "T_CMP_IMM", "T_ADD", "T_SUB", "T_MOV_HI",
      "T_LDR", "T_STR", "T_B", "T_BCC", "T_BX", "T_CMP", "T_AND", "T_EOR", "T_ORR",
      "T_MUL" }
NoHandler(l) ==
    IF l.mode = "ARM" THEN l.type \notin ArmHandled ELSE l.type \notin ThumbHandled

\* C24: a step whose mnemonic has no handler changes no register but PC, no
\* flag, no memory byte and no cache state, moves PC on by the width of the
\* mode and counts as one instruction
C24_UnimplementedIsNoOp ==
    (Stepped /\ NoHandler(last)) =>
        /\ OthersSame(last.before.registers, registers, PC)
        /\ cpsr = last.before.cpsr
        /\ memory = last.before.memory
        /\ cache = last.before.cache
        /\ registers[PC] = PyAdd[last.pc_val, FromInt[Width(last.mode)]]
        /\ instruction_count = last.count + 1
C24_Witness ==
    /\ Stepped
    /\ last.type = "T_TST"
    /\ cache.attached
    /\ registers[1] = W(0, 1)
    /\ registers[PC] = W(0, 12)
    /\ instruction_count = 4

\* C25: switch_mode with a value other than ARM or Thumb raises and changes
\* neither the executor's nor the decoder's mode; with ARM or Thumb it sets
\* both; in every state the mode is ARM or Thumb and the decoder holds the same
C25_ModeValid ==
    /\ mode \in { "ARM", "Thumb" }
    /\ dmode = mode
    /\ (phase \in { "called", "raised" } /\ last.type = "switch_mode") =>
          IF last.new_mode \in { "ARM", "Thumb" }
          THEN /\ phase = "called"
               /\ mode = last.new_mode
               /\ Machine = [last.before EXCEPT !.mode = last.new_mode,
                                                !.dmode = last.new_mode]
          ELSE /\ phase = "raised"
               /\ Machine = last.before
C25_Witness ==
    /\ phase = "raised"
    /\ last.type = "switch_mode"
    /\ last.new_mode = "THUMB"
    /\ mode = "ARM"
    /\ dmode = "ARM"

\* C26: no step of a run raises an error
C26_NoStepRaises == phase # "raised"

\* the entry of the program the latest step executed
EntryOf(l) == program[l.index + 1]
\* the value v reduced modulo 2^32 (ARM) or 2^16 (Thumb)
WidthMask(tag, v) == IF tag = "ARM" THEN Mod32(v) ELSE << 0, v[2] >>

\* C27: a step runs in the mode of the tag of the entry indexed by PC, decodes
\* the entry's value cut to that mode's width with that mode's decoder, and
\* leaves the mode as the tag says unless the instruction is BX / T_BX
C27_ModeFollowsTag ==
    Stepped =>
        /\ last.mode = EntryOf(last)[2]
        /\ last.value = WidthMask(last.mode, EntryOf(last)[1])
        /\ [type |-> last.type, ops |-> last.ops] =
              (IF EntryOf(last)[2] = "ARM"
               THEN ARM_decode_instruction(last.value)
               ELSE decode_thumb_instruction(last.value[2]))
        /\ last.type \notin { "BX", "T_BX" } => mode = last.mode
        /\ mode # last.before.mode =>
              \/ last.type \in { "BX", "T_BX" }
              \/ last.before.mode # EntryOf(last)[2]
C27_Witness ==
    /\ Stepped
    /\ last.before.mode = "ARM"
    /\ last.mode = "Thumb"
    /\ EntryOf(last)[1] = << 1, \h3801 >>
    /\ last.type = "T_SUB_IMM"
    /\ mode = "Thumb"

\* ---- the decoders ----
ArmMnemonics ==
    { "MUL", "BX", "MOV", "ADD", "SUB", "CMP", "AND", "EOR", "ORR", "BIC", "MVN", "TST", "TEQ",
      "MOV_IMM", "ADD_IMM", "SUB_IMM", "CMP_IMM", "AND_IMM", "EOR_IMM", "ORR_IMM",
      "BIC_IMM", "MVN_IMM", "TST_IMM", "TEQ_IMM", "LDR", "STR", "B", "BL", "UNKNOWN" }
ArmDecoded == phase = "decode" /\ last.type = "decode_arm"
ThumbDecoded == phase = "decode" /\ last.type = "decode_thumb"
\* bits 27..26 and 24..21 of the decoded word, from its upper half
ArmClass == (last.word[1] \div 1024) % 4
ArmOpcode == (last.word[1] \div 32) % 16
SupportedOpcodes == { 0, 1, 2, 4, 8, 9, 10, 12, 13, 14, 15 }

\* C16: the ARM decoder returns a mnemonic of the fixed set for every word,
\* changes nothing, and maps a data-processing word with an unsupported
\* opcode and every class-11 word to UNKNOWN with no operands
C16_ArmDecodeTotal ==
    ArmDecoded =>
        /\ last.result.type \in ArmMnemonics
        /\ ((ArmClass = 0 /\ ArmOpcode \notin SupportedOpcodes) \/ ArmClass = 3)
              => last.result = Decoded("UNKNOWN", NoOps)
        /\ Machine = last.before
C16_Witness ==
    /\ ArmDecoded
    /\ ArmClass = 0
    /\ ArmOpcode = 5
    /\ last.word[1] \div 4096 = 14
    /\ last.result = Decoded("UNKNOWN", NoOps)

ThumbMnemonics ==
    { "T_MOV_IMM", "T_CMP_IMM", "T_ADD_IMM", "T_SUB_IMM", "T_ADD", "T_SUB",
      "T_LSL", "T_LSR", "T_ASR", "T_AND", "T_EOR", "T_ADC", "T_SBC", "T_ROR", "T_TST",
      "T_NEG", "T_CMP", "T_CMN", "T_ORR", "T_MUL", "T_BIC", "T_MVN", "T_MOV_HI", "T_BX",
      "T_STR_REG", "T_STRH_REG", "T_STRB_REG", "T_LDR_PC", "T_LDR", "T_STR",
      "T_BCC", "T_B", "T_SWI", "T_UNKNOWN" }
\* the halfword starts none of the ten formats: above 0x7FFF, not 1101....
\* (conditional branch, SWI) and not 11100... (branch)
MatchesNoThumbFormat(h) ==
    /\ h \div 8192 >= 4
    /\ h \div 4096 # 13
    /\ h \div 2048 # 28

\* C17: the Thumb decoder returns a result for every halfword, indexes no
\* table out of range, changes nothing, and returns T_UNKNOWN with the raw
\* value exactly for the halfwords that match no format
C17_ThumbDecodeTotal ==
    ThumbDecoded =>
        /\ last.result.type \in ThumbMnemonics
        /\ MatchesNoThumbFormat(last.half)
              => last.result = Decoded("T_UNKNOWN", [raw |-> last.half])
        /\ last.result.type = "T_UNKNOWN" => MatchesNoThumbFormat(last.half)
        /\ Machine = last.before
C17_Witness ==
    /\ ThumbDecoded
    /\ last.half = 65535
    /\ last.result = Decoded("T_UNKNOWN", [raw |-> 65535])

\* ---- the cache hierarchy ----
Levels == { "L1I", "L1D", "L2" }
IsAccess == phase = "cache" /\ last.type \in { "access_instruction", "access_data" }
\* the latest call probed level lv
Accessed(lv) == IsAccess /\ cache[lv].accesses = last.before[lv].accesses + 1
BlockNumber(c, a) == ToInt[a] \div c.block_size
LineIndex(c, a) ==
    IF c.mapping = "direct" THEN BlockNumber(c, a) % Cardinality(DOMAIN c.lines) ELSE 0
\* the line the latest call looked at in level lv, as it was before the call
OldLine(lv) == last.before[lv].lines[LineIndex(last.before[lv], last.address)]
ShouldHit(lv) ==
    OldLine(lv).valid /\ OldLine(lv).tag = FromInt[BlockNumber(last.before[lv], last.address)]
CountedHit(lv) ==
    /\ cache[lv].hits = last.before[lv].hits + 1
    /\ cache[lv].misses = last.before[lv].misses
CountedMiss(lv) ==
    /\ cache[lv].hits = last.before[lv].hits
    /\ cache[lv].misses = last.before[lv].misses + 1

\* C11: an access of a level is a hit exactly when the line at the index of
\* the address was valid with tag address div block_size; the simulator
\* records the same outcome; after the access the same address would hit
C11_HitIffValidAndTag ==
    \A lv \in Levels :
        Accessed(lv) =>
            /\ CountedHit(lv) <=> ShouldHit(lv)
            /\ CountedMiss(lv) <=> ~ShouldHit(lv)
            /\ lv = last.level =>
                  (cache.stats[lv \o "_hit"] = last.before.stats[lv \o "_hit"] + 1
                      <=> ShouldHit(lv))
            /\ ShouldHit(lv) =>
                  cache[lv].lines = [last.before[lv].lines EXCEPT
                      ![LineIndex(cache[lv], last.address)].dirty = @ \/ last.is_write]
            /\ CacheHit(cache[lv], last.address)
C11_Witness ==
    /\ Accessed("L1I")
    /\ calls = 2
    /\ \A i \in DOMAIN last.before.L1I.lines : i # 0 => ~last.before.L1I.lines[i].valid
    /\ cache.L1I.misses = 1
    /\ cache.L1I.hits = 1

\* C12: a miss counts one write-back exactly when the replaced line was valid
\* and dirty, and installs {valid, tag of the address, dirty = is_write}; a hit
\* leaves write_backs alone
C12_WriteBackIffDirtyEviction ==
    \A lv \in Levels :
        Accessed(lv) =>
            IF ShouldHit(lv)
            THEN cache[lv].write_backs = last.before[lv].write_backs
            ELSE /\ cache[lv].write_backs =
                      last.before[lv].write_backs
                          + (IF OldLine(lv).valid /\ OldLine(lv).dirty THEN 1 ELSE 0)
                 /\ cache[lv].lines = [last.before[lv].lines EXCEPT
                      ![LineIndex(cache[lv], last.address)] =
                          [valid |-> TRUE,
                           tag |-> FromInt[BlockNumber(cache[lv], last.address)],
                           dirty |-> last.is_write]]
C12_Witness ==
    /\ Accessed("L1D")
    /\ ~ShouldHit("L1D")
    /\ OldLine("L1D").valid /\ OldLine("L1D").dirty
    /\ cache.L1D.write_backs = last.before.L1D.write_backs + 1

AllCountersZero(cs) ==
    /\ \A k \in StatKeys : cs.stats[k] = 0
    /\ \A lv \in Levels :
          cs[lv].accesses = 0 /\ cs[lv].hits = 0 /\ cs[lv].misses = 0 /\ cs[lv].write_backs = 0

\* C13: after reset every counter is zero and every line of the three levels
\* is invalid
C13_ResetInvalidates ==
    (phase = "cache" /\ last.type = "reset") =>
        /\ AllCountersZero(cache)
        /\ \A lv \in Levels : \A i \in DOMAIN cache[lv].lines : ~cache[lv].lines[i].valid

\* C14: L2 is probed exactly when the L1 probe of the call missed, with the
\* flag of the call, and the other L1 is not touched; so L2.accesses is the
\* sum of the two L1 miss counters
C14_L2ProbedOnL1Miss ==
    /\ phase = "cache" => cache.L2.accesses = cache.L1I.misses + cache.L1D.misses
    /\ IsAccess =>
          /\ Accessed(last.level)
          /\ Accessed("L2") <=> ~ShouldHit(last.level)
          /\ \A lv \in { "L1I", "L1D" } \ { last.level } : cache[lv] = last.before[lv]
          /\ ~Accessed("L2") => cache.L2 = last.before.L2
          /\ (Accessed("L2") /\ ~ShouldHit("L2")) =>
                cache.L2.lines[LineIndex(cache.L2, last.address)].dirty = last.is_write
C14_Witness ==
    /\ Accessed("L1D")
    /\ ShouldHit("L1D")
    /\ cache.L2 = last.before.L2
    /\ cache.L2.accesses > 0

\* C15: summarize returns the sum of the two L1 miss counts, the L2 miss
\* count, the sum of the three write-back counters and
\* cost = 0.5 * L1_miss + L2_miss + write_backs, and changes nothing
C15_Summarize ==
    (phase = "cache" /\ last.type = "summarize") =>
        /\ last.result.L1_miss = cache.L1I.misses + cache.L1D.misses
        /\ last.result.L1_miss = cache.stats["L1I_miss"] + cache.stats["L1D_miss"]
        /\ last.result.L2_miss = cache.L2.misses
        /\ last.result.write_backs =
              cache.L1I.write_backs + cache.L1D.write_backs + cache.L2.write_backs
        /\ last.result.cost_x2 =
              last.result.L1_miss + 2 * last.result.L2_miss + 2 * last.result.write_backs
        /\ cache = last.before
C15_Witness ==
    /\ phase = "cache" /\ last.type = "summarize"
    /\ last.result.L1_miss = 4
    /\ last.result.L2_miss = 2
    /\ last.result.write_backs = 1
    /\ last.result.cost_x2 = 10

\* ---- decode priorities ----
\* (w & 0x0FC000F0) = 0x00000090 and (w & 0x0FFFFFF0) = 0x012FFF10 on the
\* halves of the word
MulPattern(w) == (w[1] \div 64) % 64 = 0 /\ (w[2] \div 16) % 16 = 9
BxPattern(w) == w[1] % 4096 = 303 /\ w[2] \div 16 = 4081

\* C28: a word with the multiply pattern decodes to MUL with rd = bits 19..16,
\* rs = bits 11..8, rm = bits 3..0, a word with the branch-exchange pattern to
\* BX with rm = bits 3..0, and no other word decodes to MUL or BX
C28_ArmDecodePriority ==
    ArmDecoded =>
        IF MulPattern(last.word)
        THEN last.result = Decoded("MUL", [rd |-> last.word[1] % 16,
                                           rm |-> last.word[2] % 16,
                                           rs |-> (last.word[2] \div 256) % 16])
        ELSE IF BxPattern(last.word)
        THEN last.result = Decoded("BX", [rm |-> last.word[2] % 16])
        ELSE last.result.type \notin { "MUL", "BX" }
C28_Witness ==
    /\ ArmDecoded
    /\ last.word = W(\hE12F, \hFF1E)
    /\ ArmClass = 0
    /\ ArmOpcode = 9
    /\ last.result = Decoded("BX", [rm |-> 14])

Format67Types == { "T_STR_REG", "T_STRH_REG", "T_STRB_REG", "T_LDR_PC" }
\* the mnemonics the decoder produces for the halfwords with bits 15..13 = 010
Format67Produced == { decode_thumb_instruction(h).type : h \in 2 * 8192 .. 3 * 8192 - 1 }

\* C29: a halfword with bits 15..13 = 010 that is neither Format 4 nor
\* Format 5 decodes by bits 12..11 to T_STR_REG, T_STRH_REG, T_STRB_REG,
\* T_LDR_PC, and each of the four is produced for at least one halfword
C29_Format67 ==
    /\ (ThumbDecoded /\ last.half \div 8192 = 2 /\ last.half \div 1024 \notin { 16, 17 }) =>
          last.result.type =
              (CASE (last.half \div 2048) % 4 = 0 -> "T_STR_REG"
                 [] (last.half \div 2048) % 4 = 1 -> "T_STRH_REG"
                 [] (last.half \div 2048) % 4 = 2 -> "T_STRB_REG"
                 [] (last.half \div 2048) % 4 = 3 -> "T_LDR_PC")
    /\ ThumbDecoded => Format67Types \subseteq Format67Produced

\* C30: a halfword 0xDFxx decodes to T_SWI with immediate = bits 7..0; a
\* halfword 0xDcxx with c in 0..14 decodes to T_BCC with condition c and
\* offset 2 * signext8(bits 7..0)
C30_Thumb1101 ==
    (ThumbDecoded /\ last.half \div 4096 = 13) =>
        IF (last.half \div 256) % 16 = 15
        THEN last.result = Decoded("T_SWI", [immediate |-> last.half % 256])
        ELSE last.result = Decoded("T_BCC", [condition |-> (last.half \div 256) % 16,
                                             offset |-> 2 * SignExt8(last.half % 256)])
C30_Witness ==
    /\ ThumbDecoded
    /\ last.half = 53758
    /\ last.result = Decoded("T_BCC", [condition |-> 1, offset |-> -4])

\* ---- Thumb branches, Format 2 ----
SignExt11(f) == IF f >= 1024 THEN f - 2048 ELSE f
\* the offset field of a Thumb branch halfword, sign-extended
ThumbField(l) ==
    IF l.type = "T_B" THEN SignExt11(ToInt[l.value] % 2048)
    ELSE SignExt8(ToInt[l.value] % 256)
ThumbBranchTaken(l) ==
    \/ l.type = "T_B"
    \/ /\ l.type = "T_BCC"
       /\ ConditionOf((ToInt[l.value] \div 256) % 16, l.before.cpsr)

\* C31: a taken Thumb branch (T_B, or T_BCC whose condition holds) leaves
\* PC = (PC at fetch + 4 + 2 * signext(offset field)) mod 2^32, the factor
\* of two applied once, for the 11-bit and the 8-bit field
C31_ThumbBranchDisplacement ==
    (Called /\ ThumbBranchTaken(last)) =>
        registers[PC] = Mod32(PyAdd[last.pc_val, FromInt[4 + 2 * ThumbField(last)]])

\* ---- the order of execution ----
PcWriting(entry) ==
    LET d == DecodedAs(entry[2], entry[1])
    IN  \/ d.type \in { "B", "BL", "BX", "T_B", "T_BCC", "T_BX" }
        \/ d.type \in WritesRd /\ d.ops.rd = PC
\* ARM-tagged entries all before the Thumb-tagged ones, no instruction writing PC
LinearProgram(prog) ==
    /\ \A i, j \in DOMAIN prog : (i < j /\ prog[i][2] = "Thumb") => prog[j][2] = "Thumb"
    /\ \A i \in DOMAIN prog : ~PcWriting(prog[i])
\* byte address of entry k (counted from 0): the widths of the entries before it
EntryAddress(prog, k) ==
    4 * Cardinality({ i \in 1 .. k : prog[i][2] = "ARM" })
    + 2 * Cardinality({ i \in 1 .. k : prog[i][2] = "Thumb" })

\* C32: a program whose ARM entries precede its Thumb entries and that holds
\* no PC-writing instruction runs its entries in index order, each once and in
\* the mode of its tag, and stops normally with PC = 4 * arm_count + 2 * thumb_count
C32_LinearRun ==
    LinearProgram(program) =>
        /\ phase # "raised"
        /\ last.type # "None" =>
              /\ last.index = last.count
              /\ last.mode = program[last.index + 1][2]
        /\ phase = "done" =>
              /\ instruction_count = Len(program)
              /\ ~limit_reported
              /\ registers[PC] = FromInt[EntryAddress(program, Len(program))]
\* the same without the Thumb loads that raise on an executor with a cache
C32_LinearRunNoRaise ==
    (\A i \in DOMAIN program : cache.attached => DecodedAs(program[i][2], program[i][1]).type # "T_LDR")
        => C32_LinearRun

\* C33: at every executed step the entry executed is the one whose byte
\* address (the widths, 4 or 2, of the entries before it) is the PC at the
\* fetch, for every order of the tags and after every branch or BX
C33_EntryAtPc ==
    last.type # "None" => last.pc_val = FromInt[EntryAddress(program, last.index)]

\* ---- cache traffic of the handlers ----
\* C34: with a cache attached, an executed load or store (LDR, STR, T_LDR,
\* T_STR) makes one data-cache access at its effective address, a write for
\* the stores and a read for the loads; the ARM ones first make one
\* instruction-cache access at the PC of the instruction; every other
\* instruction leaves the caches as they were
C34_CacheTraffic ==
    (phase \in { "called", "loaded", "raised" } /\ last.type # "switch_mode"
        /\ last.before.cache.attached) =>
        CASE last.type \in { "LDR", "STR" } ->
                 /\ cache.L1I = BaseCache_access(last.before.cache.L1I, last.pc_val, FALSE)
                 /\ cache.L1D = BaseCache_access(last.before.cache.L1D, ArmAddress(last),
                                                 last.type = "STR")
                 /\ cache.L1D.accesses = last.before.cache.L1D.accesses + 1
          [] last.type \in { "T_LDR", "T_STR" } ->
                 /\ cache.L1I = last.before.cache.L1I
                 /\ cache.L1D = BaseCache_access(last.before.cache.L1D, ThumbAddress(last),
                                                 last.type = "T_STR")
                 /\ cache.L1D.accesses = last.before.cache.L1D.accesses + 1
          [] OTHER -> cache = last.before.cache
\* the same with the Thumb load set aside
C34_CacheTrafficButThumbLoad == last.type # "T_LDR" => C34_CacheTraffic

\* the halfword of record l is Thumb Format 2 (bits 15..11 = 00011)
Format2(l) == l.mode = "Thumb" /\ l.value[2] \div 2048 = 3
Format2Operand(l) ==
    IF (l.value[2] \div 1024) % 2 = 1 THEN << 0, (l.value[2] \div 64) % 8 >>
    ELSE l.before.registers[(l.value[2] \div 64) % 8]

\* C35: Thumb Format 2 (ADD / SUB Rd, Rs, Rn or #imm3) leaves
\* R[rd] = (R[rs] + x) mod 2^32 or (R[rs] - x) mod 2^32, x being R[rn] in the
\* register form and imm3 in the immediate form
C35_ThumbFormat2 ==
    (Called /\ "value" \in DOMAIN last /\ Format2(last)) =>
        registers[last.value[2] % 8] =
            Mod32(IF (last.value[2] \div 512) % 2 = 1
                  THEN PySub[last.before.registers[(last.value[2] \div 8) % 8], Format2Operand(last)]
                  ELSE PyAdd[last.before.registers[(last.value[2] \div 8) % 8], Format2Operand(last)])

\* ---- counters and lines of a cache level ----
ValidCount(c) == Cardinality({ i \in DOMAIN c.lines : c.lines[i].valid })
\* every call so far was an access: each one probed exactly one of the L1s
NoResetYet == cache.L1I.accesses + cache.L1D.accesses = calls

\* C36: for every level, accesses = hits + misses and write_backs <= misses
\* after any calls; while no reset has happened a valid line stays valid and
\* the number of valid lines is at most the number of misses
C36_LevelCounters ==
    phase = "cache" =>
        \A lv \in Levels :
            /\ cache[lv].accesses = cache[lv].hits + cache[lv].misses
            /\ cache[lv].write_backs <= cache[lv].misses
            /\ NoResetYet =>
                  /\ ValidCount(cache[lv]) <= cache[lv].misses
                  /\ IsAccess =>
                        \A i \in DOMAIN cache[lv].lines :
                            last.before[lv].lines[i].valid => cache[lv].lines[i].valid
C36_Witness ==
    /\ phase = "cache"
    /\ NoResetYet
    /\ calls = 4
    /\ cache.L1D.write_backs = 1
    /\ cache.L1D.misses = 2
    /\ cache.L1D.hits = 2
    /\ ValidCount(cache.L2) = 2
    /\ cache.L2.misses = 2

\* C37 (lines): in every level the number of lines is size div block_size, a
\* dirty line is valid, a valid line of a direct-mapped level at index i holds
\* a tag t with t mod (number of lines) = i, and in a single-set level only
\* line 0 is ever valid
LinesWellFormed ==
    phase = "cache" =>
        \A lv \in Levels :
            /\ Cardinality(DOMAIN cache[lv].lines) = cache[lv].size \div cache[lv].block_size
            /\ \A i \in DOMAIN cache[lv].lines :
                  /\ cache[lv].lines[i].dirty => cache[lv].lines[i].valid
                  /\ (cache[lv].mapping = "direct" /\ cache[lv].lines[i].valid) =>
                        ToInt[cache[lv].lines[i].tag] % Cardinality(DOMAIN cache[lv].lines) = i
                  /\ (cache[lv].mapping # "direct" /\ cache[lv].lines[i].valid) => i = 0
\* two calls in a row that both probe the single-set level lv, at different blocks
ConsecutivePair(lv) ==
    /\ Accessed(lv)
    /\ Accessed(lv)'
    /\ cache[lv].mapping # "direct"
    /\ BlockNumber(cache[lv], last.address) # BlockNumber(cache[lv], last'.address)

\* C37: the lines are well-formed, and of two consecutive accesses of a
\* single-set level to different blocks, both miss
C37_LinesAndThrash ==
    /\ []LinesWellFormed
    /\ [][\A lv \in Levels : ConsecutivePair(lv) => (CountedMiss(lv) /\ CountedMiss(lv)')]_vars
\* C37 as it holds: the lines are well-formed, and of two consecutive accesses
\* of a single-set level to different blocks, the second misses
C37_LinesAndSecondMiss ==
    /\ []LinesWellFormed
    /\ [][\A lv \in Levels : ConsecutivePair(lv) => CountedMiss(lv)']_vars
C37_Witness ==
    /\ Accessed("L1D")
    /\ cache.L1D.mapping = "fully"
    /\ OldLine("L1D").valid
    /\ OldLine("L1D").tag # FromInt[BlockNumber(cache.L1D, last.address)]
    /\ last.before.L1D.hits = 1
    /\ CountedMiss("L1D")
    /\ cache.L1D.lines[0].dirty
    /\ ~cache.L1D.lines[1].valid

\* C38: after any access_instruction, access_data and reset calls the
\* simulator's statistics equal the counters of the levels (hit and miss of
\* L1I, L1D and L2), and L2_miss <= L1I_miss + L1D_miss
C38_StatsAgree ==
    phase = "cache" =>
        /\ \A lv \in Levels :
              /\ cache.stats[lv \o "_miss"] = cache[lv].misses
              /\ cache.stats[lv \o "_hit"] = cache[lv].hits
        /\ cache.stats["L2_miss"] <= cache.stats["L1I_miss"] + cache.stats["L1D_miss"]
C38_Witness ==
    /\ phase = "cache"
    /\ ~NoResetYet
    /\ cache.stats["L1I_miss"] = 1
    /\ cache.stats["L2_hit"] = 1
    /\ cache.stats["L2_miss"] = 0
    /\ cache.stats["L1D_hit"] = 1
    /\ cache.L1D.hits = 1

\* ---- the condition field of ARM words ----
\* over the sampled words and the words executed, the decoder's result does
\* not depend on bits 31..28
DecoderIgnoresCondition ==
    \A w \in { x \in DecodeArmWords : x[1] \div 4096 = 14 } \cup UnitArmWords :
        \A c \in 0 .. 15 :
            ARM_decode_instruction(WithCondition(w, c)) = ARM_decode_instruction(w)

\* C39: two ARM words that differ only in bits 31..28 decode to the same
\* mnemonic and operands and, executed from the same state, leave the same
\* state: a B with condition EQ branches with Z clear
C39_ConditionIgnored ==
    phase = "paired" =>
        /\ DecoderIgnoresCondition
        /\ last.other_result = last.result
        /\ last.other_state = Machine
C39_Witness ==
    /\ phase = "paired"
    /\ last.word = W(\h0AFF, \hFFFF)
    /\ last.other = W(\hEAFF, \hFFFF)
    /\ last.result.type = "B"
    /\ ~ZFlag(last.before.cpsr)
    /\ last.pc_val = W(0, \h0100)
    /\ registers[PC] = W(0, \h0104)

\* ---- the unified decoder ----
\* C40: decode_instruction is governed by the mode, passed explicitly or set
\* before by set_mode: for ARM it returns the ARM decoder's mnemonic and
\* operands, for Thumb the Thumb decoder's
C40_DecodeByMode ==
    (phase = "decode" /\ last.type = "decode_instruction") =>
        last.result =
            (IF (IF last.passed = "omitted" THEN last.before.dmode ELSE last.passed) = "ARM"
             THEN ARM_decode_instruction(last.word)
             ELSE decode_thumb_instruction(ToInt[last.word]))
\* the same for the calls that pass ARM, or pass nothing with ARM set
C40_DecodeByModeArm ==
    (last.type = "decode_instruction"
        /\ (IF last.passed = "omitted" THEN last.before.dmode ELSE last.passed) = "ARM")
        => C40_DecodeByMode
====
